---- MODULE Spec2Model ----
(***************************************************************************)
(* Second Brain OS backend: the capture / fix / recent pipeline over the   *)
(* captures, records and inbox_log tables.                                 *)
(*                                                                         *)
(* Numbers that are confidences are scaled by 100 (0.60 is 60).            *)
(* JavaScript values are tagged records: Undef, Null, Num(n), Str(s),      *)
(* Arr(a), Obj(o).  A JSON object is a record of its known keys; a key     *)
(* that is absent holds Undef.                                             *)
(***************************************************************************)
EXTENDS Integers, Sequences, FiniteSets, TLC

VARIABLES captures, records, inbox_log, youtube_captures, inflight, last, nreq, page, call, ret

vars == <<captures, records, inbox_log, youtube_captures, inflight, last, nreq, page, call, ret>>

(* ----------------------------- bounds ---------------------------------- *)
\* number of capture / fix requests that are started in one behaviour
MaxRequests == 2

(* ------------------------- JavaScript values --------------------------- *)
Undef == [t |-> "undef"]
NaN == [t |-> "nan"]
Null == [t |-> "null"]
Num(n) == [t |-> "num", n |-> n]
Str(s) == [t |-> "str", s |-> s]
Arr(a) == [t |-> "arr", a |-> a]
Obj(o) == [t |-> "obj", o |-> o]

\* ToNumber of a string: the numeric strings that occur, scaled by 100;
\* every other non-empty string is NaN
NumericStrings == {"0.9", "0.3"}
StringToNumber(s) == IF s = "0.9" THEN 90 ELSE IF s = "0.3" THEN 30 ELSE 0

\* v is turned into NaN by ToNumber
IsNaN(v) ==
  \/ v.t = "undef"
  \/ v.t = "nan"
  \/ v.t = "obj"
  \/ v.t = "str" /\ v.s # "" /\ v.s \notin NumericStrings
  \/ v.t = "arr" /\ Len(v.a) > 1

ToNumber(v) ==
  IF v.t = "num" THEN v.n
  ELSE IF v.t = "str" /\ v.s \in NumericStrings THEN StringToNumber(v.s)
  ELSE 0

\* JavaScript v < n for a number n
JsLess(v, n) == ~IsNaN(v) /\ ToNumber(v) < n

Truthy(v) ==
  CASE v.t = "undef" -> FALSE
    [] v.t = "nan" -> FALSE
    [] v.t = "null" -> FALSE
    [] v.t = "num" -> v.n # 0
    [] v.t = "str" -> v.s # ""
    [] OTHER -> TRUE

\* a || d
OrElse(v, d) == IF Truthy(v) THEN v ELSE d
\* a ?? d
Coalesce(v, d) == IF v.t \in {"undef", "null"} THEN d ELSE v

IsStringOrNull(v) == v.t \in {"str", "null"}

(* ------------------------ multiThoughtDetector ------------------------- *)
\* text is a sequence of one-character strings
Whitespace == {" ", "\n", "\t"}
Digits == {"0", "1", "2", "3", "4", "5", "6", "7", "8", "9"}
Letters == {"a", "b", "c", "d", "e", "f", "g", "h", "i", "j", "k", "l", "m",
            "n", "o", "p", "q", "r", "s", "t", "u", "v", "w", "x", "y", "z",
            "A", "B", "C", "F", "P", "R"}
WordChars == Letters \cup Digits \cup {"_"}

ToLowerChar(c) ==
  CASE c = "A" -> "a" [] c = "B" -> "b" [] c = "C" -> "c" [] c = "F" -> "f"
    [] c = "P" -> "p" [] c = "R" -> "r" [] OTHER -> c

RECURSIVE TrimStart(_)
TrimStart(s) == IF s # <<>> /\ Head(s) \in Whitespace THEN TrimStart(Tail(s)) ELSE s
RECURSIVE TrimEnd(_)
TrimEnd(s) ==
  IF s # <<>> /\ s[Len(s)] \in Whitespace THEN TrimEnd(SubSeq(s, 1, Len(s) - 1)) ELSE s
Trim(s) == TrimEnd(TrimStart(s))

\* matches of /[.!?]\s+/g : a terminator followed by whitespace
SentenceEndings(text) ==
  {i \in 1..(Len(text) - 1) : text[i] \in {".", "!", "?"} /\ text[i + 1] \in Whitespace}

ConnectorWords ==
  { <<"a","l","s","o">>,
    <<"a","n","d"," ","a","l","s","o">>,
    <<"a","d","d","i","t","i","o","n","a","l","l","y">>,
    <<"f","u","r","t","h","e","r","m","o","r","e">>,
    <<"m","o","r","e","o","v","e","r">>,
    <<"p","l","u","s">> }

\* \b at the gap before position i (1..Len+1)
WordBoundary(text, i) ==
  LET before == i > 1 /\ text[i - 1] \in WordChars
      after == i <= Len(text) /\ text[i] \in WordChars
  IN before # after

\* /\b(also|and also|additionally|furthermore|moreover|plus)\b/i
HasConnectors(text) ==
  \E w \in ConnectorWords : \E i \in 1..Len(text) :
    /\ i + Len(w) - 1 <= Len(text)
    /\ \A k \in 1..Len(w) : ToLowerChar(text[i + k - 1]) = w[k]
    /\ WordBoundary(text, i)
    /\ WordBoundary(text, i + Len(w))

\* /^(\d+[.)]|\*|-)\s/ at position i, which starts a line
RECURSIVE SkipDigits(_, _)
SkipDigits(text, i) ==
  IF i <= Len(text) /\ text[i] \in Digits THEN SkipDigits(text, i + 1) ELSE i

ListMarkerAt(text, i) ==
  \/ /\ i + 1 <= Len(text)
     /\ text[i] \in {"*", "-"}
     /\ text[i + 1] \in Whitespace
  \/ LET j == SkipDigits(text, i) IN
       /\ j > i
       /\ j + 1 <= Len(text)
       /\ text[j] \in {".", ")"}
       /\ text[j + 1] \in Whitespace

LineStarts(text) == {i \in 1..Len(text) : i = 1 \/ text[i - 1] = "\n"}

HasList(text) == \E i \in LineStarts(text) : ListMarkerAt(text, i)

\* the detector with "very long" starting at three sentence boundaries
detectMultipleThoughtsThreeSentences(raw_text) ==
  IF Len(raw_text) = 0 \/ Len(Trim(raw_text)) = 0 THEN FALSE
  ELSE LET text == Trim(raw_text)
           sentenceEndings == Cardinality(SentenceEndings(text))
           hasMultipleSentences == sentenceEndings >= 2
           hasSemicolon == \E i \in 1..Len(text) : text[i] = ";"
       IN \/ HasList(text)
          \/ hasMultipleSentences /\ (HasConnectors(text) \/ hasSemicolon)
          \/ sentenceEndings >= 3

detectMultipleThoughts(raw_text) ==
  IF Len(raw_text) = 0 \/ Len(Trim(raw_text)) = 0 THEN FALSE
  ELSE LET text == Trim(raw_text)
           sentenceEndings == Cardinality(SentenceEndings(text))
           hasMultipleSentences == sentenceEndings >= 2
           hasSemicolon == \E i \in 1..Len(text) : text[i] = ";"
       IN \/ HasList(text)
          \/ hasMultipleSentences /\ (HasConnectors(text) \/ hasSemicolon)
          \/ sentenceEndings >= 4

MultiThoughtClarificationMessage == "Please split into one thought per capture."

(* --------------------------- canonicalRecord --------------------------- *)
RecordTypes == {"person", "project", "idea", "admin"}
ProjectStatuses == {"active", "waiting", "blocked", "someday", "done"}
TaskStatuses == {"open", "done"}

EmptyPersonFields == [person_name |-> Undef, context |-> Undef, follow_up |-> Undef]
EmptyProjectFields ==
  [project_name |-> Undef, project_status |-> Undef, next_action |-> Undef, notes |-> Undef]
EmptyIdeaFields == [idea_one_liner |-> Undef, notes |-> Undef]
EmptyAdminFields == [task |-> Undef, due_date |-> Undef, task_status |-> Undef, notes |-> Undef]

\* an object without any of the CanonicalRecord keys
EmptyObject ==
  [schema_version |-> Undef, type |-> Undef, title |-> Undef, confidence |-> Undef,
   clarification_question |-> Undef, links |-> Undef,
   person |-> Undef, project |-> Undef, idea |-> Undef, admin |-> Undef]

\* { ...record }
Spread(record) == IF record.t = "obj" THEN record.o ELSE EmptyObject

\* /^\d{4}-\d{2}-\d{2}$/ on a sequence of characters
MatchesIsoDate(s) ==
  /\ Len(s) = 10
  /\ \A i \in {1, 2, 3, 4, 6, 7, 9, 10} : s[i] \in Digits
  /\ s[5] = "-" /\ s[8] = "-"

\* normalized.bucket = normalized.bucket || {}
BucketOrEmpty(b, empty) == IF Truthy(b) THEN b ELSE Obj(empty)

\* assigning a property of a truthy primitive throws (module code is strict)
AssignThrows(b) == b.t \in {"str", "num"}

\* the fields of a bucket that is an object or an array
FieldsOf(b, empty) == IF b.t = "obj" THEN b.o ELSE empty

NormalizePerson(b) ==
  LET f == FieldsOf(b, EmptyPersonFields) IN
  [person_name |-> Coalesce(f.person_name, Null),
   context |-> Coalesce(f.context, Null),
   follow_up |-> Coalesce(f.follow_up, Null)]

NormalizeProject(b) ==
  LET f == FieldsOf(b, EmptyProjectFields) IN
  [project_name |-> Coalesce(f.project_name, Null),
   project_status |-> IF ~Truthy(f.project_status) THEN Str("active") ELSE f.project_status,
   next_action |-> Coalesce(f.next_action, Null),
   notes |-> Coalesce(f.notes, Null)]

NormalizeIdea(b) ==
  LET f == FieldsOf(b, EmptyIdeaFields) IN
  [idea_one_liner |-> Coalesce(f.idea_one_liner, Null),
   notes |-> Coalesce(f.notes, Null)]

NormalizeAdmin(b) ==
  LET f == FieldsOf(b, EmptyAdminFields) IN
  [task |-> Coalesce(f.task, Null),
   due_date |-> Coalesce(f.due_date, Null),
   task_status |-> IF ~Truthy(f.task_status) THEN Str("open") ELSE f.task_status,
   notes |-> Coalesce(f.notes, Null)]

NormalizeConfidence(c) ==
  IF c.t # "num" \/ c.n < 0 \/ c.n > 100 THEN Num(0) ELSE c

\* [threw |-> TRUE] when a property assignment throws, else the normalized object;
\* a bucket that is an array keeps being an array (tag "arr")
normalizeCanonicalRecord(record) ==
  LET n == Spread(record)
      person == BucketOrEmpty(n.person, EmptyPersonFields)
      project == BucketOrEmpty(n.project, EmptyProjectFields)
      idea == BucketOrEmpty(n.idea, EmptyIdeaFields)
      admin == BucketOrEmpty(n.admin, EmptyAdminFields)
  IN IF AssignThrows(person) \/ AssignThrows(project) \/ AssignThrows(idea) \/ AssignThrows(admin)
     THEN [threw |-> TRUE, value |-> EmptyObject]
     ELSE [threw |-> FALSE,
           value |->
             [schema_version |-> OrElse(n.schema_version, Str("1.0")),
              type |-> n.type,
              title |-> n.title,
              confidence |-> NormalizeConfidence(n.confidence),
              clarification_question |-> Coalesce(n.clarification_question, Null),
              links |-> OrElse(n.links, Arr(<<>>)),
              person |-> [t |-> person.t, o |-> NormalizePerson(person)],
              project |-> [t |-> project.t, o |-> NormalizeProject(project)],
              idea |-> [t |-> idea.t, o |-> NormalizeIdea(idea)],
              admin |-> [t |-> admin.t, o |-> NormalizeAdmin(admin)]]]

IsEnum(v, values) == v.t = "str" /\ v.s \in values

\* z.string(): any string, the empty one included
TitleSchema(v) == v.t = "str"

\* CanonicalRecordSchema.parse succeeds on r
CanonicalRecordSchema(r) ==
  /\ r.schema_version = Str("1.0")
  /\ IsEnum(r.type, RecordTypes)
  /\ TitleSchema(r.title)
  /\ r.confidence.t = "num" /\ r.confidence.n >= 0 /\ r.confidence.n <= 100
  /\ IsStringOrNull(r.clarification_question)
  /\ r.links.t = "arr" /\ \A i \in 1..Len(r.links.a) : r.links.a[i].t = "str"
  /\ r.person.t = "obj"
  /\ IsStringOrNull(r.person.o.person_name)
  /\ IsStringOrNull(r.person.o.context)
  /\ IsStringOrNull(r.person.o.follow_up)
  /\ r.project.t = "obj"
  /\ IsStringOrNull(r.project.o.project_name)
  /\ IsEnum(r.project.o.project_status, ProjectStatuses)
  /\ IsStringOrNull(r.project.o.next_action)
  /\ IsStringOrNull(r.project.o.notes)
  /\ r.idea.t = "obj"
  /\ IsStringOrNull(r.idea.o.idea_one_liner)
  /\ IsStringOrNull(r.idea.o.notes)
  /\ r.admin.t = "obj"
  /\ IsStringOrNull(r.admin.o.task)
  /\ r.admin.o.due_date.t \in {"str", "null"}
  /\ (r.admin.o.due_date.t = "str" => MatchesIsoDate(r.admin.o.due_date.s))
  /\ IsEnum(r.admin.o.task_status, TaskStatuses)
  /\ IsStringOrNull(r.admin.o.notes)

safeValidateCanonicalRecord(record) ==
  LET normalized == normalizeCanonicalRecord(record) IN
  IF ~normalized.threw /\ CanonicalRecordSchema(normalized.value)
  THEN [success |-> TRUE, record |-> normalized.value]
  ELSE [success |-> FALSE, record |-> EmptyObject]

\* the empty record with the bucket defaults left null
buildEmptyCanonicalRecordAllNull(type, confidence, clarification_question) ==
  [schema_version |-> Str("1.0"),
   type |-> IF type.t = "undef" THEN Str("admin") ELSE type,
   title |-> Str("Unfiled capture"),
   confidence |-> IF confidence.t = "undef" THEN Num(50) ELSE confidence,
   clarification_question |->
     IF clarification_question.t = "undef" THEN Null ELSE clarification_question,
   links |-> Arr(<<>>),
   person |-> Obj([person_name |-> Null, context |-> Null, follow_up |-> Null]),
   project |-> Obj([project_name |-> Null, project_status |-> Null,
                    next_action |-> Null, notes |-> Null]),
   idea |-> Obj([idea_one_liner |-> Null, notes |-> Null]),
   admin |-> Obj([task |-> Null, due_date |-> Null, task_status |-> Null,
                  notes |-> Null])]

\* default parameters apply to undefined only
buildEmptyCanonicalRecord(type, confidence, clarification_question) ==
  [schema_version |-> Str("1.0"),
   type |-> IF type.t = "undef" THEN Str("admin") ELSE type,
   title |-> Str("Unfiled capture"),
   confidence |-> IF confidence.t = "undef" THEN Num(50) ELSE confidence,
   clarification_question |->
     IF clarification_question.t = "undef" THEN Null ELSE clarification_question,
   links |-> Arr(<<>>),
   person |-> Obj([person_name |-> Null, context |-> Null, follow_up |-> Null]),
   project |-> Obj([project_name |-> Null, project_status |-> Str("active"),
                    next_action |-> Null, notes |-> Null]),
   idea |-> Obj([idea_one_liner |-> Null, notes |-> Null]),
   admin |-> Obj([task |-> Null, due_date |-> Null, task_status |-> Str("open"),
                  notes |-> Null])]

(* ------------------------------ jsonGuard ------------------------------ *)
\* The text an LLM returns is a JSON value inside a wrapping:
\*   "plain"   the JSON text alone (surrounding whitespace allowed)
\*   "fenced"  the JSON text inside a ``` or ```json block, prose around it
\*   "prose"   the JSON text between two pieces of prose without braces
\*   "none"    text with no JSON in it, or the empty string
Wrappings == {"plain", "fenced", "prose", "none"}
LLMText(wrap, json) == [wrap |-> wrap, json |-> json]

\* Strategy 1 parses any JSON text; strategies 2 and 3 look for { ... }
parseJSONFromLLM(llmResponse) ==
  CASE llmResponse.wrap = "plain" -> [threw |-> FALSE, data |-> llmResponse.json]
    [] llmResponse.wrap \in {"fenced", "prose"} /\ llmResponse.json.t = "obj" ->
         [threw |-> FALSE, data |-> llmResponse.json]
    [] OTHER -> [threw |-> TRUE, data |-> Undef]

parseJSONSafe(llmResponse) ==
  LET r == parseJSONFromLLM(llmResponse) IN
  IF r.threw THEN [success |-> FALSE, data |-> Undef]
  ELSE [success |-> TRUE, data |-> r.data]

\* JSON.stringify / JSON.parse of a record object: a key holding undefined is
\* dropped by stringify and reads as undefined after parse
JSONStringify(record) == [json_text |-> record]
JSONParse(text) == text.json_text

(* ------------------------------ database ------------------------------- *)
Uuid(k) == [t |-> "uuid", k |-> k]

\* better-sqlite3 binds numbers, strings (a uuid is one) and null, and throws
\* on anything else (undefined, objects, arrays)
Bindable(v) == v.t \in {"num", "str", "null", "uuid"}

\* a REAL column turns numeric text into a number
RealAffinity(v) ==
  IF v.t = "str" /\ v.s \in NumericStrings THEN Num(StringToNumber(v.s)) ELSE v

\* CHECK (confidence BETWEEN 0 AND 1); a NULL passes a CHECK
ConfidenceCheck(v) == v.t = "null" \/ (v.t = "num" /\ v.n >= 0 /\ v.n <= 100)

\* CHECK (type IN ('person', 'project', 'idea', 'admin')); a NULL passes
TypeCheck(v) == v.t = "null" \/ (v.t = "str" /\ v.s \in RecordTypes)

CaptureExists(caps, capture_id) == \E c \in caps : c.capture_id = capture_id
RecordExists(recs, record_id) == \E r \in recs : r.record_id = record_id

LogIds(log) == {log[i].log_id : i \in 1..Len(log)}

RECURSIVE SetMax(_)
SetMax(S) ==
  IF S = {} THEN 0
  ELSE LET x == CHOOSE y \in S : TRUE
           m == SetMax(S \ {x})
       IN IF x > m THEN x ELSE m

\* SELECT COALESCE(MAX(log_id), 0) + 1 FROM inbox_log
getNextLogId(log) == SetMax(LogIds(log)) + 1

\* the result of db.prepare(...).run(...): changes is the number of rows written
Statement(ok, error, table, changes) ==
  [ok |-> ok, error |-> error, table |-> table, changes |-> changes]

\* INSERT OR REPLACE keyed by capture_id: the entry of a capture is overwritten
UpsertInboxLog(log, caps, recs, inbox_log_id, log_id, capture_id, action, status, confidence, clarification_question, record_id, filed_type, filed_title) ==
  LET row == [inbox_log_id |-> inbox_log_id, log_id |-> log_id, capture_id |-> capture_id,
              action |-> action, status |-> status,
              confidence |-> RealAffinity(confidence),
              clarification_question |-> clarification_question,
              record_id |-> record_id, filed_type |-> filed_type,
              filed_title |-> filed_title]
      kept == SelectSeq(log, LAMBDA e : e.capture_id # capture_id)
  IN IF Bindable(confidence) /\ Bindable(clarification_question)
        /\ ConfidenceCheck(row.confidence) /\ CaptureExists(caps, capture_id)
     THEN Statement(TRUE, "", Append(kept, row), 1)
     ELSE Statement(FALSE, "check", log, 0)

\* the INSERT into a table whose log_id column is not UNIQUE
InsertInboxLogNoUnique(log, caps, recs, inbox_log_id, log_id, capture_id, action, status, confidence, clarification_question, record_id, filed_type, filed_title) ==
  LET row == [inbox_log_id |-> inbox_log_id, log_id |-> log_id, capture_id |-> capture_id,
              action |-> action, status |-> status,
              confidence |-> RealAffinity(confidence),
              clarification_question |-> clarification_question,
              record_id |-> record_id, filed_type |-> filed_type,
              filed_title |-> filed_title]
  IN IF ~(Bindable(confidence) /\ Bindable(clarification_question) /\ Bindable(record_id)
          /\ Bindable(filed_type) /\ Bindable(filed_title) /\ Bindable(capture_id))
     THEN Statement(FALSE, "bind", log, 0)
     ELSE IF \E i \in 1..Len(log) : log[i].inbox_log_id = inbox_log_id
     THEN Statement(FALSE, "primary_key", log, 0)
     ELSE IF capture_id.t = "null"
     THEN Statement(FALSE, "not_null", log, 0)
     ELSE IF ~(ConfidenceCheck(row.confidence) /\ TypeCheck(filed_type))
     THEN Statement(FALSE, "check", log, 0)
     ELSE IF ~CaptureExists(caps, capture_id)
             \/ (record_id.t # "null" /\ ~RecordExists(recs, record_id))
     THEN Statement(FALSE, "foreign_key", log, 0)
     ELSE Statement(TRUE, "", Append(log, row), 1)

\* INSERT INTO inbox_log (...) VALUES (...): the statement throws and writes
\* nothing when a parameter cannot be bound or a constraint fails
InsertInboxLog(log, caps, recs, inbox_log_id, log_id, capture_id, action, status, confidence, clarification_question, record_id, filed_type, filed_title) ==
  LET row == [inbox_log_id |-> inbox_log_id, log_id |-> log_id, capture_id |-> capture_id,
              action |-> action, status |-> status,
              confidence |-> RealAffinity(confidence),
              clarification_question |-> clarification_question,
              record_id |-> record_id, filed_type |-> filed_type,
              filed_title |-> filed_title]
  IN IF ~(Bindable(confidence) /\ Bindable(clarification_question) /\ Bindable(record_id)
          /\ Bindable(filed_type) /\ Bindable(filed_title) /\ Bindable(capture_id))
     THEN Statement(FALSE, "bind", log, 0)
     ELSE IF \E i \in 1..Len(log) : log[i].inbox_log_id = inbox_log_id
     THEN Statement(FALSE, "primary_key", log, 0)
     ELSE IF log_id \in LogIds(log)
     THEN Statement(FALSE, "unique", log, 0)
     ELSE IF capture_id.t = "null"
     THEN Statement(FALSE, "not_null", log, 0)
     ELSE IF ~(ConfidenceCheck(row.confidence) /\ TypeCheck(filed_type))
     THEN Statement(FALSE, "check", log, 0)
     ELSE IF ~CaptureExists(caps, capture_id)
             \/ (record_id.t # "null" /\ ~RecordExists(recs, record_id))
     THEN Statement(FALSE, "foreign_key", log, 0)
     ELSE Statement(TRUE, "", Append(log, row), 1)

\* INSERT INTO records (record_id, capture_id, canonical_json, type, title, confidence)
InsertRecord(recs, caps, record_id, capture_id, canonical_json, type, title, confidence) ==
  LET row == [record_id |-> record_id, capture_id |-> capture_id,
              canonical_json |-> canonical_json, type |-> type, title |-> title,
              confidence |-> RealAffinity(confidence)]
  IN IF ~(Bindable(capture_id) /\ Bindable(type) /\ Bindable(title) /\ Bindable(confidence))
     THEN Statement(FALSE, "bind", recs, 0)
     ELSE IF RecordExists(recs, record_id)
     THEN Statement(FALSE, "primary_key", recs, 0)
     ELSE IF capture_id.t = "null" \/ type.t = "null" \/ title.t = "null"
             \/ row.confidence.t = "null"
     THEN Statement(FALSE, "not_null", recs, 0)
     ELSE IF ~(ConfidenceCheck(row.confidence) /\ TypeCheck(type))
     THEN Statement(FALSE, "check", recs, 0)
     ELSE IF ~CaptureExists(caps, capture_id)
     THEN Statement(FALSE, "foreign_key", recs, 0)
     ELSE Statement(TRUE, "", recs \cup {row}, 1)

\* an UPDATE that leaves the title column as it was
UpdateRecordKeepsTitle(recs, record_id, canonical_json, type, title, confidence) ==
  LET updated(r) == [r EXCEPT !.canonical_json = canonical_json, !.type = type,
                              !.confidence = RealAffinity(confidence)]
  IN IF ~(Bindable(type) /\ Bindable(title) /\ Bindable(confidence) /\ Bindable(record_id))
     THEN Statement(FALSE, "bind", recs, 0)
     ELSE IF ~RecordExists(recs, record_id)
     THEN Statement(TRUE, "", recs, 0)
     ELSE IF type.t = "null" \/ title.t = "null" \/ RealAffinity(confidence).t = "null"
     THEN Statement(FALSE, "not_null", recs, 0)
     ELSE IF ~(ConfidenceCheck(RealAffinity(confidence)) /\ TypeCheck(type))
     THEN Statement(FALSE, "check", recs, 0)
     ELSE Statement(TRUE, "",
            {IF r.record_id = record_id THEN updated(r) ELSE r : r \in recs}, 1)

\* UPDATE records SET canonical_json, type, title, confidence WHERE record_id = ?
UpdateRecord(recs, record_id, canonical_json, type, title, confidence) ==
  LET updated(r) == [r EXCEPT !.canonical_json = canonical_json, !.type = type,
                              !.title = title, !.confidence = RealAffinity(confidence)]
  IN IF ~(Bindable(type) /\ Bindable(title) /\ Bindable(confidence) /\ Bindable(record_id))
     THEN Statement(FALSE, "bind", recs, 0)
     ELSE IF ~RecordExists(recs, record_id)
     THEN Statement(TRUE, "", recs, 0)
     ELSE IF type.t = "null" \/ title.t = "null" \/ RealAffinity(confidence).t = "null"
     THEN Statement(FALSE, "not_null", recs, 0)
     ELSE IF ~(ConfidenceCheck(RealAffinity(confidence)) /\ TypeCheck(type))
     THEN Statement(FALSE, "check", recs, 0)
     ELSE Statement(TRUE, "",
            {IF r.record_id = record_id THEN updated(r) ELSE r : r \in recs}, 1)

\* confidence.toFixed(2) throws unless confidence is a number
ToFixedThrows(confidence) == confidence.t # "num"

(* ------------------------------ responses ------------------------------ *)
\* What a handler answers, with what the request left in the store.
\*   declared  the outer confidence of the LLM output (Null when there is none)
\*   wrote     the tables this request has written a row to
\*   error     the statement or call that threw, for a 500
NoResponse ==
  [req |-> 0, route |-> "none", http |-> 0, status |-> "", capture_id |-> Null,
   inbox_log_id |-> Null, type |-> Null, title |-> Null, confidence |-> Null,
   clarification_question |-> Null, record |-> Null, stored_record |-> Null,
   error |-> "", declared |-> Null, wrote |-> {}]

\* catch (error) { res.status(500).json(...) }
ServerError(ctx, error, wrote) ==
  [NoResponse EXCEPT !.req = ctx.req, !.route = ctx.route, !.http = 500,
                     !.capture_id = ctx.capture_id, !.error = error, !.wrote = wrote]

Outcome(recs, log, resp) == [records |-> recs, inbox_log |-> log, resp |-> resp]

(* ------------------------------- capture ------------------------------- *)
CaptureThreshold == 60
MultiThoughtConfidence == 30
ParseFailedConfidence == 20

NoFields ==
  [status |-> Undef, type |-> Undef, title |-> Undef, confidence |-> Undef,
   clarification_question |-> Undef, links |-> Undef, record |-> Undef,
   change_summary |-> Undef]

\* parseResult.data as ClassifierOutput / FixLLMOutput: a property of a value
\* that is not an object reads as undefined
OutputFields(data) == IF data.t = "obj" THEN data.o ELSE NoFields

NoValidation == [success |-> FALSE, record |-> EmptyObject]

\* the gate with a threshold of 0.50
CaptureGateLowThreshold(out) ==
  JsLess(out.confidence, 50) \/ out.status = Str("needs_review")

\* classifierOutput.confidence < 0.60 || classifierOutput.status === 'needs_review'
CaptureGate(out) ==
  JsLess(out.confidence, CaptureThreshold) \/ out.status = Str("needs_review")

\* the branch of the handler that answers, in the order of its checks
CaptureBranch(parseResult, out, validation) ==
  IF ~parseResult.success \/ ~Truthy(parseResult.data) THEN "parse_failed"
  ELSE IF CaptureGate(out) THEN "needs_review"
  ELSE IF ~Truthy(out.record) THEN "missing_record"
  ELSE IF ~validation.success THEN "invalid_record"
  ELSE "filed"

\* the nested confidence of the validated record is kept
KeepNestedConfidence(canonicalRecord, confidence) == canonicalRecord

\* canonicalRecord.confidence = classifierOutput.confidence
OverwriteConfidence(canonicalRecord, confidence) ==
  [canonicalRecord EXCEPT !.confidence = confidence]

\* the statement on records a branch of capture executes: only the last
\* branch reaches the INSERT
CaptureRecordStatement(branch, validation, recs, caps, record_id, capture_id, canonicalRecord) ==
  IF branch = "filed"
  THEN InsertRecord(recs, caps, record_id, capture_id, JSONStringify(canonicalRecord),
                    canonicalRecord.type, canonicalRecord.title, canonicalRecord.confidence)
  ELSE Statement(TRUE, "", recs, 0)

\* what the branch puts in its inbox_log row and in classification
CaptureClassification(branch, out, canonicalRecord) ==
  CASE branch = "multi_thought" ->
         [type |-> Str("admin"), title |-> Str("Unfiled capture"),
          confidence |-> Num(MultiThoughtConfidence),
          clarification_question |-> Str(MultiThoughtClarificationMessage),
          record |-> buildEmptyCanonicalRecord(Str("admin"), Num(MultiThoughtConfidence),
                                               Str(MultiThoughtClarificationMessage))]
    [] branch = "parse_failed" ->
         [type |-> Str("admin"), title |-> Str("Unfiled capture"),
          confidence |-> Num(ParseFailedConfidence),
          clarification_question |-> Str("Could not understand input"),
          record |-> buildEmptyCanonicalRecord(Str("admin"), Num(ParseFailedConfidence),
                                               Str("Could not understand input"))]
    [] branch = "needs_review" ->
         [type |-> out.type, title |-> out.title, confidence |-> out.confidence,
          clarification_question |-> out.clarification_question,
          record |-> buildEmptyCanonicalRecord(out.type, out.confidence,
                                               out.clarification_question)]
    [] branch = "missing_record" ->
         [type |-> out.type, title |-> out.title, confidence |-> out.confidence,
          clarification_question |->
            Str("Record validation failed - please provide more details"),
          record |-> buildEmptyCanonicalRecord(out.type, out.confidence,
                       Str("Record validation failed - please provide more details"))]
    [] branch = "invalid_record" ->
         [type |-> out.type, title |-> out.title, confidence |-> out.confidence,
          clarification_question |-> Str("Please clarify the details of this item"),
          record |-> buildEmptyCanonicalRecord(out.type, out.confidence,
                       Str("Please clarify the details of this item"))]
    [] OTHER ->
         [type |-> canonicalRecord.type, title |-> canonicalRecord.title,
          confidence |-> canonicalRecord.confidence, clarification_question |-> Null,
          record |-> canonicalRecord]

\* the handler from its branch on: the statement on records, the inbox_log
\* INSERT, the log line of the filed branch, res.json
CaptureRespond(ctx, branch, out, validation, caps, recs, logs) ==
  LET canonicalRecord == OverwriteConfidence(validation.record, out.confidence)
      c == CaptureClassification(branch, out, canonicalRecord)
      filed == branch = "filed"
      record_id == Uuid(ctx.req)
      rec == CaptureRecordStatement(branch, validation, recs, caps, record_id,
                                    ctx.capture_id, canonicalRecord)
      wroteRec == IF rec.ok /\ rec.changes > 0 THEN {"records"} ELSE {}
      log == InsertInboxLog(logs, caps, rec.table, Uuid(ctx.req), ctx.log_id,
                            ctx.capture_id,
                            IF filed THEN "filed" ELSE "needs_review",
                            IF filed THEN "filed" ELSE "needs_review",
                            c.confidence, c.clarification_question,
                            IF filed THEN record_id ELSE Null,
                            IF filed THEN c.type ELSE Null,
                            IF filed THEN c.title ELSE Null)
  IN IF ~rec.ok
     THEN Outcome(recs, logs, ServerError(ctx, rec.error, {"captures"}))
     ELSE IF ~log.ok
     THEN Outcome(rec.table, logs,
                  ServerError(ctx, log.error, {"captures"} \cup wroteRec))
     ELSE IF filed /\ ToFixedThrows(canonicalRecord.confidence)
     THEN Outcome(rec.table, log.table,
                  ServerError(ctx, "toFixed", {"captures", "inbox_log"} \cup wroteRec))
     ELSE Outcome(rec.table, log.table,
                  [req |-> ctx.req, route |-> "capture", http |-> 200,
                   status |-> IF filed THEN "filed" ELSE "needs_review",
                   capture_id |-> ctx.capture_id, inbox_log_id |-> Uuid(ctx.req),
                   type |-> c.type, title |-> c.title, confidence |-> c.confidence,
                   clarification_question |-> c.clarification_question,
                   record |-> c.record,
                   stored_record |-> IF filed THEN record_id ELSE Null,
                   error |-> "",
                   declared |-> IF branch \in {"multi_thought", "parse_failed"}
                                THEN Null ELSE out.confidence,
                   wrote |-> {"captures", "inbox_log"} \cup wroteRec])

\* lines 100-342: parse the LLM text, then answer by branch
CaptureFinish(ctx, llmResponse, caps, recs, logs) ==
  LET parseResult == parseJSONSafe(llmResponse)
      out == OutputFields(parseResult.data)
      validation == IF Truthy(out.record) THEN safeValidateCanonicalRecord(out.record)
                    ELSE NoValidation
  IN CaptureRespond(ctx, CaptureBranch(parseResult, out, validation), out, validation,
                    caps, recs, logs)

(* --------------------------------- fix --------------------------------- *)
FixThreshold == 70

\* the gate with the threshold of capture
FixGateCaptureThreshold(out) ==
  out.status = Str("needs_review") \/ JsLess(out.confidence, CaptureThreshold)

\* fixOutput.status === 'needs_review' || fixOutput.confidence < 0.70
FixGate(out) ==
  out.status = Str("needs_review") \/ JsLess(out.confidence, FixThreshold)

FixBranch(parseResult, out, validation) ==
  IF ~parseResult.success \/ ~Truthy(parseResult.data) THEN "parse_failed"
  ELSE IF FixGate(out) THEN "needs_review"
  ELSE IF ~Truthy(out.record) THEN "missing_record"
  ELSE IF ~validation.success THEN "invalid_record"
  ELSE "fixed"

\* the record is written as soon as it validates, before the gate decides
FixRecordStatementBeforeGate(branch, validation, recs, caps, record_id, new_record_id, capture_id, canonicalRecord) ==
  IF validation.success
  THEN IF Truthy(record_id)
       THEN UpdateRecord(recs, record_id, JSONStringify(canonicalRecord),
                         canonicalRecord.type, canonicalRecord.title,
                         canonicalRecord.confidence)
       ELSE InsertRecord(recs, caps, new_record_id, capture_id,
                         JSONStringify(canonicalRecord), canonicalRecord.type,
                         canonicalRecord.title, canonicalRecord.confidence)
  ELSE Statement(TRUE, "", recs, 0)

\* the statement of a fix that inserts a row whether or not record_id is given
FixRecordStatementAlwaysInsert(branch, validation, recs, caps, record_id, new_record_id, capture_id, canonicalRecord) ==
  IF branch = "fixed"
  THEN InsertRecord(recs, caps, new_record_id, capture_id,
                    JSONStringify(canonicalRecord), canonicalRecord.type,
                    canonicalRecord.title, canonicalRecord.confidence)
  ELSE Statement(TRUE, "", recs, 0)

\* the statement on records a branch of fix executes: only the last branch
\* reaches the UPDATE (record_id given) or the INSERT (record_id null)
FixRecordStatement(branch, validation, recs, caps, record_id, new_record_id, capture_id, canonicalRecord) ==
  IF branch = "fixed"
  THEN IF Truthy(record_id)
       THEN UpdateRecord(recs, record_id, JSONStringify(canonicalRecord),
                         canonicalRecord.type, canonicalRecord.title,
                         canonicalRecord.confidence)
       ELSE InsertRecord(recs, caps, new_record_id, capture_id,
                         JSONStringify(canonicalRecord), canonicalRecord.type,
                         canonicalRecord.title, canonicalRecord.confidence)
  ELSE Statement(TRUE, "", recs, 0)

\* the audit of a fix that logs a message with a successful fix as well
FixAuditLogsMessage(branch, out, canonicalRecord) ==
  CASE branch = "parse_failed" ->
         [confidence |-> Num(ParseFailedConfidence),
          logged_question |-> Str("Could not parse fix response"),
          clarification_question |-> Str("Could not parse fix response. Please try again.")]
    [] branch = "needs_review" ->
         [confidence |-> out.confidence,
          logged_question |->
            OrElse(out.clarification_question, Str("Still needs clarification")),
          clarification_question |->
            OrElse(out.clarification_question, Str("Still needs clarification"))]
    [] branch = "missing_record" ->
         [confidence |-> out.confidence,
          logged_question |-> Str("Record validation failed - please provide more details"),
          clarification_question |->
            Str("Record validation failed - please provide more details")]
    [] branch = "invalid_record" ->
         [confidence |-> out.confidence,
          logged_question |-> Str("Please clarify the details of this item"),
          clarification_question |-> Str("Please clarify the details of this item")]
    [] OTHER ->
         [confidence |-> canonicalRecord.confidence, logged_question |-> Str("Fixed"),
          clarification_question |-> Null]

\* the confidence and question of the inbox_log row, and the question of the response
FixAudit(branch, out, canonicalRecord) ==
  CASE branch = "parse_failed" ->
         [confidence |-> Num(ParseFailedConfidence),
          logged_question |-> Str("Could not parse fix response"),
          clarification_question |-> Str("Could not parse fix response. Please try again.")]
    [] branch = "needs_review" ->
         [confidence |-> out.confidence,
          logged_question |->
            OrElse(out.clarification_question, Str("Still needs clarification")),
          clarification_question |->
            OrElse(out.clarification_question, Str("Still needs clarification"))]
    [] branch = "missing_record" ->
         [confidence |-> out.confidence,
          logged_question |-> Str("Record validation failed - please provide more details"),
          clarification_question |->
            Str("Record validation failed - please provide more details")]
    [] branch = "invalid_record" ->
         [confidence |-> out.confidence,
          logged_question |-> Str("Please clarify the details of this item"),
          clarification_question |-> Str("Please clarify the details of this item")]
    [] OTHER ->
         [confidence |-> canonicalRecord.confidence, logged_question |-> Null,
          clarification_question |-> Null]

FixRespond(ctx, branch, out, validation, caps, recs, logs) ==
  LET canonicalRecord == OverwriteConfidence(validation.record, out.confidence)
      a == FixAudit(branch, out, canonicalRecord)
      fixed == branch = "fixed"
      final_record_id == IF Truthy(ctx.record_id) THEN ctx.record_id ELSE Uuid(ctx.req)
      rec == FixRecordStatement(branch, validation, recs, caps, ctx.record_id,
                                Uuid(ctx.req), ctx.capture_id, canonicalRecord)
      wroteRec == IF rec.ok /\ rec.changes > 0 THEN {"records"} ELSE {}
      log == InsertInboxLog(logs, caps, rec.table, Uuid(ctx.req),
                            getNextLogId(logs), ctx.capture_id,
                            IF fixed THEN "fixed" ELSE "fix_attempted",
                            IF fixed THEN "filed" ELSE "needs_review",
                            a.confidence, a.logged_question,
                            IF fixed THEN final_record_id ELSE Null,
                            IF fixed THEN canonicalRecord.type ELSE Null,
                            IF fixed THEN canonicalRecord.title ELSE Null)
  IN IF ~rec.ok
     THEN Outcome(recs, logs, ServerError(ctx, rec.error, {}))
     ELSE IF ~log.ok
     THEN Outcome(rec.table, logs, ServerError(ctx, log.error, wroteRec))
     ELSE IF fixed /\ ToFixedThrows(canonicalRecord.confidence)
     THEN Outcome(rec.table, log.table,
                  ServerError(ctx, "toFixed", {"inbox_log"} \cup wroteRec))
     ELSE Outcome(rec.table, log.table,
                  [req |-> ctx.req, route |-> "fix", http |-> 200,
                   status |-> IF fixed THEN "fixed" ELSE "needs_review",
                   capture_id |-> ctx.capture_id, inbox_log_id |-> Uuid(ctx.req),
                   type |-> IF fixed THEN canonicalRecord.type ELSE Null,
                   title |-> Null,
                   confidence |-> IF fixed THEN canonicalRecord.confidence ELSE Null,
                   clarification_question |-> a.clarification_question,
                   record |-> IF fixed THEN canonicalRecord ELSE Null,
                   stored_record |-> IF fixed THEN final_record_id ELSE Null,
                   error |-> "",
                   declared |-> IF branch = "parse_failed" THEN Null ELSE out.confidence,
                   wrote |-> {"inbox_log"} \cup wroteRec])

\* lines 71-305: parse the LLM text, then answer by branch
FixFinish(ctx, llmResponse, caps, recs, logs) ==
  LET parseResult == parseJSONSafe(llmResponse)
      out == OutputFields(parseResult.data)
      validation == IF Truthy(out.record) THEN safeValidateCanonicalRecord(out.record)
                    ELSE NoValidation
  IN FixRespond(ctx, FixBranch(parseResult, out, validation), out, validation,
                caps, recs, logs)

\* the record the fixer is given, were the client's copy the fallback for a
\* record_id that matches no row
ResolveCurrentRecordFallsBack(recs, record_id, existing_record) ==
  IF Truthy(record_id) /\ RecordExists(recs, record_id)
  THEN JSONParse((CHOOSE r \in recs : r.record_id = record_id).canonical_json)
  ELSE existing_record

\* the record the fixer is given, were the client's copy preferred
ResolveCurrentRecordPreferClient(recs, record_id, existing_record) ==
  IF existing_record # Null THEN existing_record
  ELSE IF Truthy(record_id) /\ RecordExists(recs, record_id)
  THEN JSONParse((CHOOSE r \in recs : r.record_id = record_id).canonical_json)
  ELSE Null

\* lines 43-56: the record the fixer is given
ResolveCurrentRecord(recs, record_id, existing_record) ==
  IF Truthy(record_id)
  THEN IF RecordExists(recs, record_id)
       THEN JSONParse((CHOOSE r \in recs : r.record_id = record_id).canonical_json)
       ELSE Null
  ELSE existing_record

buildFixInput(userCorrection, existingRecord) ==
  JSONStringify([user_correction |-> userCorrection, existing_record |-> existingRecord])

buildClassifierInputFromCapture(raw_text) ==
  JSONStringify([raw_text |-> raw_text])

(* -------------------------------- recent ------------------------------- *)
DigitChars == <<"0", "1", "2", "3", "4", "5", "6", "7", "8", "9">>
DigitValue(c) == (CHOOSE d \in 1..10 : DigitChars[d] = c) - 1

\* the number the leading decimal digits of text spell, after acc
RECURSIVE LeadingDigits(_, _)
LeadingDigits(text, acc) ==
  IF text = <<>> \/ text[1] \notin Digits THEN acc
  ELSE LeadingDigits(Tail(text), 10 * acc + DigitValue(text[1]))

\* parseInt(q, 10) of a query parameter: white space and a sign are skipped,
\* the leading digits are read, and there is NaN when there are none; a
\* parameter that is absent is the string "undefined"
ParseInt(q) ==
  IF q.t # "str" THEN NaN
  ELSE LET t == TrimStart(q.s)
           signed == t # <<>> /\ t[1] \in {"-", "+"}
           digits == IF signed THEN Tail(t) ELSE t
       IN IF digits = <<>> \/ digits[1] \notin Digits THEN NaN
          ELSE IF signed /\ t[1] = "-" THEN Num(0 - LeadingDigits(digits, 0))
          ELSE Num(LeadingDigits(digits, 0))

\* Number.prototype.toString of a positive integer
RECURSIVE ToDecimal(_)
ToDecimal(n) ==
  IF n < 10 THEN <<DigitChars[n + 1]>>
  ELSE ToDecimal(n \div 10) \o <<DigitChars[(n % 10) + 1]>>

RecentDefaultLimit == 20
RecentMaxLimit == 100
PreviewLength == 100

Min(a, b) == IF a < b THEN a ELSE b
Max(a, b) == IF a > b THEN a ELSE b

\* the limit without the upper clamp
RecentLimitUnclamped(limitQuery) ==
  Max(OrElse(ParseInt(limitQuery), Num(RecentDefaultLimit)).n, 1)

\* Math.min(Math.max(limitParam || 20, 1), 100)
RecentLimit(limitQuery) ==
  Min(Max(OrElse(ParseInt(limitQuery), Num(RecentDefaultLimit)).n, 1), RecentMaxLimit)

\* req.query.cursor ? parseInt(req.query.cursor, 10) : null
RecentCursor(cursorQuery) == IF Truthy(cursorQuery) THEN ParseInt(cursorQuery) ELSE Null

\* SUBSTR(x, 1, 100)
Substr(text) == SubSeq(text, 1, Min(PreviewLength, Len(text)))

\* the first branch without the join on MAX(log_id): a row for every entry
InboxRowsEveryEntry(caps, log) ==
  {[capture_id |-> e.capture_id, inbox_log_id |-> e.inbox_log_id,
    raw_text_preview |->
      Substr((CHOOSE c \in caps : c.capture_id = e.capture_id).raw_text),
    status |-> Str(e.status), filed_type |-> e.filed_type,
    filed_title |-> e.filed_title, confidence |-> e.confidence,
    record_id |-> e.record_id, log_id |-> Num(e.log_id)] :
   e \in {x \in {log[i] : i \in 1..Len(log)} : CaptureExists(caps, x.capture_id)}}

\* first branch of the UNION: for each capture the inbox_log row with its
\* greatest log_id
InboxRows(caps, log) ==
  LET entries == {log[i] : i \in 1..Len(log)}
      latest(e) == \A o \in entries : o.capture_id = e.capture_id => o.log_id <= e.log_id
  IN {[capture_id |-> e.capture_id, inbox_log_id |-> e.inbox_log_id,
       raw_text_preview |->
         Substr((CHOOSE c \in caps : c.capture_id = e.capture_id).raw_text),
       status |-> Str(e.status), filed_type |-> e.filed_type,
       filed_title |-> e.filed_title, confidence |-> e.confidence,
       record_id |-> e.record_id, log_id |-> Num(e.log_id)] :
      e \in {x \in entries : CaptureExists(caps, x.capture_id) /\ latest(x)}}

\* strftime('%s', created_at): the seconds since 1970 of a timestamp, NULL for
\* a text that is no timestamp
Timestamps ==
  {"1970-01-01T00:00:01.100Z", "1970-01-01T00:00:01.900Z", "1970-01-01T00:00:02.000Z"}
StrftimeSeconds(created_at) ==
  CASE created_at = "1970-01-01T00:00:01.100Z" -> Num(1)
    [] created_at = "1970-01-01T00:00:01.900Z" -> Num(1)
    [] created_at = "1970-01-01T00:00:02.000Z" -> Num(2)
    [] OTHER -> Null

MillisPerSecond == 1000

\* second branch of the UNION: the completed youtube captures, with
\* CAST(strftime('%s', yc.created_at) AS INTEGER) * 1000 as log_id
YoutubeRows(yt) ==
  {[capture_id |-> yc.id, inbox_log_id |-> yc.id,
    raw_text_preview |-> Substr(yc.summary),
    status |-> Str("filed"), filed_type |-> Str("youtube"),
    filed_title |-> yc.title, confidence |-> Null, record_id |-> yc.id,
    log_id |-> IF StrftimeSeconds(yc.created_at).t = "num"
               THEN Num(StrftimeSeconds(yc.created_at).n * MillisPerSecond)
               ELSE Null] :
   yc \in {x \in yt : x.status = "completed"}}

\* WHERE (? IS NULL OR log_id < ?): a NaN is bound as NULL, and a NULL log_id
\* is below nothing
RecentRows(caps, log, yt, cursor) ==
  {r \in InboxRows(caps, log) \cup YoutubeRows(yt) :
     \/ cursor.t \in {"null", "nan"}
     \/ r.log_id.t = "num" /\ r.log_id.n < cursor.n}

\* ORDER BY log_id DESC LIMIT limit: NULLs come last; rows with the same
\* log_id come in an order SQL leaves open
RECURSIVE OrderDescLimit(_, _)
OrderDescLimit(rows, limit) ==
  IF rows = {} \/ limit = 0 THEN <<>>
  ELSE LET numbered == {r \in rows : r.log_id.t = "num"}
           top == IF numbered = {} THEN CHOOSE r \in rows : TRUE
                  ELSE CHOOSE r \in numbered : \A o \in numbered : o.log_id.n <= r.log_id.n
       IN <<top>> \o OrderDescLimit(rows \ {top}, limit - 1)

\* rows.map(...): the RecentItem of a row
RecentItem(row) ==
  [capture_id |-> row.capture_id, inbox_log_id |-> row.inbox_log_id,
   raw_text_preview |-> row.raw_text_preview,
   status |-> IF row.status = Str("completed") THEN Str("filed") ELSE row.status,
   type |-> OrElse(row.filed_type, Str("admin")),
   title |-> OrElse(row.filed_title, Str("Unfiled capture")),
   confidence |-> row.confidence, record_id |-> row.record_id]

\* the response with a next_cursor on every page that has a row
RecentResponseCursorOnShortPage(caps, log, yt, limitQuery, cursorQuery) ==
  LET limit == RecentLimit(limitQuery)
      cursor == RecentCursor(cursorQuery)
      rows == OrderDescLimit(RecentRows(caps, log, yt, cursor), limit)
      full == Len(rows) > 0
  IN IF full /\ rows[Len(rows)].log_id.t # "num"
     THEN [http |-> 500, limit_query |-> limitQuery, limit |-> limit, cursor |-> cursor,
           items |-> <<>>,
           log_ids |-> <<>>, next_cursor |-> Null]
     ELSE [http |-> 200, limit_query |-> limitQuery, limit |-> limit, cursor |-> cursor,
           items |-> [i \in 1..Len(rows) |-> RecentItem(rows[i])],
           log_ids |-> [i \in 1..Len(rows) |-> rows[i].log_id],
           next_cursor |-> IF full THEN Str(ToDecimal(rows[Len(rows)].log_id.n))
                           ELSE Null]

\* the response of GET /recent, with the limit parameter, the limit and the
\* cursor it was asked with and the log_id column of its rows; log_id.toString() of a NULL log_id throws and the catch answers 500
RecentResponse(caps, log, yt, limitQuery, cursorQuery) ==
  LET limit == RecentLimit(limitQuery)
      cursor == RecentCursor(cursorQuery)
      rows == OrderDescLimit(RecentRows(caps, log, yt, cursor), limit)
      full == Len(rows) = limit /\ Len(rows) > 0
  IN IF full /\ rows[Len(rows)].log_id.t # "num"
     THEN [http |-> 500, limit_query |-> limitQuery, limit |-> limit, cursor |-> cursor,
           items |-> <<>>,
           log_ids |-> <<>>, next_cursor |-> Null]
     ELSE [http |-> 200, limit_query |-> limitQuery, limit |-> limit, cursor |-> cursor,
           items |-> [i \in 1..Len(rows) |-> RecentItem(rows[i])],
           log_ids |-> [i \in 1..Len(rows) |-> rows[i].log_id],
           next_cursor |-> IF full THEN Str(ToDecimal(rows[Len(rows)].log_id.n))
                           ELSE Null]

NoPage ==
  [http |-> 0, limit_query |-> Undef, limit |-> 0, cursor |-> Null, items |-> <<>>,
   log_ids |-> <<>>,
   next_cursor |-> Null]

(* ------------------------------- inputs -------------------------------- *)
\* raw texts a client submits
TextSingle == <<"R","e","n","e","w"," ","d","o","m","a","i","n",".">>
TextList == <<"1","."," ","m","i","l","k","\n","2","."," ","e","g","g","s">>
TextAlso == <<"C","a","l","l"," ","B","e","n","."," ","A","l","s","o"," ","p","a","y",
              "."," ","S","o","o","n">>
RawTexts == {TextSingle, TextList, TextAlso}

NullPerson == Obj([person_name |-> Null, context |-> Null, follow_up |-> Null])
ActiveProject == Obj([project_name |-> Null, project_status |-> Str("active"),
                      next_action |-> Null, notes |-> Null])
NullIdea == Obj([idea_one_liner |-> Null, notes |-> Null])

\* records an LLM puts in its output; inner is the nested confidence
AdminRecord(inner, due_date) ==
  Obj([schema_version |-> Str("1.0"), type |-> Str("admin"), title |-> Str("Renew domain"),
       confidence |-> inner, clarification_question |-> Null,
       links |-> Arr(<<Str("https://robertcousins.com")>>),
       person |-> NullPerson, project |-> ActiveProject, idea |-> NullIdea,
       admin |-> Obj([task |-> Str("Renew domain"), due_date |-> due_date,
                      task_status |-> Str("open"), notes |-> Null])])
IsoDate == Str(<<"2","0","2","6","-","0","1","-","1","4">>)
RelativeDate == Str(<<"t","o","m","o","r","r","o","w">>)
GoodRecord == AdminRecord(Num(0), IsoDate)
BadDateRecord == AdminRecord(Num(90), RelativeDate)
\* only type and title are given, the nested confidence is missing
SparseRecord == Obj([EmptyObject EXCEPT !.type = Str("person"), !.title = Str("Email John")])

Output(status, type, title, confidence, clarification_question, record) ==
  Obj([status |-> status, type |-> type, title |-> title, confidence |-> confidence,
       clarification_question |-> clarification_question,
       links |-> Arr(<<>>), record |-> record, change_summary |-> Undef])

\* texts the classifier returns
ClassifierTexts ==
  { LLMText("plain", Output(Str("filed"), Str("admin"), Str("Renew domain"), Num(90), Null,
                            GoodRecord)),
    LLMText("fenced", Output(Str("filed"), Str("person"), Str("Email John"), Num(60), Null,
                             SparseRecord)),
    LLMText("plain", Output(Str("filed"), Str("admin"), Str("Renew domain"), Num(59), Null,
                            GoodRecord)),
    LLMText("plain", Output(Str("needs_review"), Str("project"), Str("Alpha"), Num(90),
                            Str("Which project?"), GoodRecord)),
    LLMText("prose", Output(Str("filed"), Str("idea"), Str("Idea"), Num(80), Null, Undef)),
    LLMText("plain", Output(Str("filed"), Str("admin"), Str("Renew domain"), Num(80), Null,
                            BadDateRecord)),
    LLMText("plain", Output(Str("filed"), Str("admin"), Str("Renew domain"), Num(150), Null,
                            GoodRecord)),
    LLMText("plain", Output(Str("filed"), Str("admin"), Str("Renew domain"), Str("0.9"),
                            Null, GoodRecord)),
    LLMText("plain", Output(Str("needs_review"), Str("admin"), Str("Renew domain"),
                            Num(0 - 50), Str("What is this?"), Null)),
    LLMText("plain", Output(Str("filed"), Str("admin"), Str("Renew domain"), Undef, Null,
                            GoodRecord)),
    LLMText("plain", Output(Str("filed"), Str("admin"), Str("Renew domain"), Str("high"),
                            Null, GoodRecord)),
    LLMText("plain", Output(Undef, Str("bogus"), Undef, Num(40), Undef, Undef)),
    LLMText("plain", Output(Str("needs_review"), Undef, Undef, Null, Str("What is this?"),
                            Undef)),
    LLMText("plain", Arr(<<Num(100)>>)),
    LLMText("plain", Null),
    LLMText("fenced", Arr(<<Num(100)>>)),
    LLMText("none", Undef) }

\* texts the fixer returns
FixerTexts ==
  { LLMText("plain", Output(Str("fixed"), Undef, Undef, Num(85), Null, GoodRecord)),
    LLMText("prose", Output(Str("fixed"), Undef, Undef, Num(70), Null, SparseRecord)),
    LLMText("plain", Output(Str("fixed"), Undef, Undef, Num(69), Null, GoodRecord)),
    LLMText("plain", Output(Str("needs_review"), Undef, Undef, Num(90), Undef, GoodRecord)),
    LLMText("plain", Output(Str("fixed"), Undef, Undef, Num(85), Null, Undef)),
    LLMText("plain", Output(Str("fixed"), Undef, Undef, Num(85), Null, BadDateRecord)),
    LLMText("plain", Output(Str("needs_review"), Undef, Undef, Num(45),
                            Str("Please provide more specific details"), Undef)),
    LLMText("plain", Output(Str("fixed"), Undef, Undef, Num(150), Null, GoodRecord)),
    LLMText("plain", Output(Str("fixed"), Undef, Undef, Undef, Null, GoodRecord)),
    LLMText("plain", Output(Str("fixed"), Undef, Undef, Str("0.9"), Null, GoodRecord)),
    LLMText("none", Undef) }

\* the existing_record a client sends with a fix: the placeholder it was given
ClientRecords ==
  { buildEmptyCanonicalRecord(Str("admin"), Num(ParseFailedConfidence),
                              Str("Could not understand input")) }

(* ---------------------------- state machine ---------------------------- *)
\* call and ret hold the arguments and the result of a function that is
\* called on its own; the server's routes leave them alone
NoCall == [fn |-> "none"]

Init ==
  /\ captures = {}
  /\ records = {}
  /\ inbox_log = <<>>
  /\ inflight = {}
  /\ last = NoResponse
  /\ nreq = 0
  /\ page = NoPage
  /\ youtube_captures = {}
  /\ call = NoCall
  /\ ret = NoCall

\* the handler without the guardrail: every capture goes to the LLM
CaptureReceiveWithoutGuardrail(raw_text) ==
  /\ nreq < MaxRequests
  /\ LET req == nreq + 1
         ctx == [req |-> req, route |-> "capture", capture_id |-> Uuid(req),
                 log_id |-> getNextLogId(inbox_log), record_id |-> Null,
                 llm_input |-> buildClassifierInputFromCapture(raw_text)]
     IN /\ nreq' = req
        /\ captures' = captures \cup {[capture_id |-> Uuid(req), raw_text |-> raw_text]}
        /\ inflight' = inflight \cup {ctx}
        /\ page' = NoPage
        /\ UNCHANGED <<youtube_captures, call, ret>>
        /\ UNCHANGED <<records, inbox_log, last>>

\* the handler, were it to store the text in lower case
CaptureReceiveStoresLowerCase(raw_text) ==
  /\ nreq < MaxRequests
  /\ LET req == nreq + 1
         ctx == [req |-> req, route |-> "capture", capture_id |-> Uuid(req),
                 log_id |-> getNextLogId(inbox_log), record_id |-> Null,
                 llm_input |-> buildClassifierInputFromCapture(raw_text)]
         caps == captures \cup {[capture_id |-> Uuid(req),
                              raw_text |-> [k \in 1..Len(raw_text) |-> ToLowerChar(raw_text[k])]]}
     IN /\ nreq' = req
        /\ captures' = caps
        /\ IF detectMultipleThoughts(raw_text)
           THEN LET o == CaptureRespond(ctx, "multi_thought", NoFields, NoValidation,
                                         caps, records, inbox_log) IN
                /\ inbox_log' = o.inbox_log
                /\ records' = o.records
                /\ last' = o.resp
                /\ inflight' = inflight
           ELSE /\ inflight' = inflight \cup {ctx}
                /\ UNCHANGED <<records, inbox_log, last>>
        /\ page' = NoPage
        /\ UNCHANGED <<youtube_captures, call, ret>>

\* POST /capture up to the await of callLLM (lines 25-98): ids, the captures
\* INSERT, the guardrail, which answers without an LLM call
CaptureReceive(raw_text) ==
  /\ nreq < MaxRequests
  /\ LET req == nreq + 1
         ctx == [req |-> req, route |-> "capture", capture_id |-> Uuid(req),
                 log_id |-> getNextLogId(inbox_log), record_id |-> Null,
                 llm_input |-> buildClassifierInputFromCapture(raw_text)]
         caps == captures \cup {[capture_id |-> Uuid(req), raw_text |-> raw_text]}
     IN /\ nreq' = req
        /\ captures' = caps
        /\ IF detectMultipleThoughts(raw_text)
           THEN LET o == CaptureRespond(ctx, "multi_thought", NoFields, NoValidation,
                                         caps, records, inbox_log) IN
                /\ inbox_log' = o.inbox_log
                /\ records' = o.records
                /\ last' = o.resp
                /\ inflight' = inflight
           ELSE /\ inflight' = inflight \cup {ctx}
                /\ UNCHANGED <<records, inbox_log, last>>
        /\ page' = NoPage
        /\ UNCHANGED <<youtube_captures, call, ret>>

\* POST /capture after callLLM has returned llmResponse (lines 100-349)
CaptureResume(ctx, llmResponse) ==
  /\ ctx \in inflight
  /\ ctx.route = "capture"
  /\ LET o == CaptureFinish(ctx, llmResponse, captures, records, inbox_log) IN
     /\ records' = o.records
     /\ inbox_log' = o.inbox_log
     /\ last' = o.resp
  /\ inflight' = inflight \ {ctx}
  /\ page' = NoPage
  /\ UNCHANGED <<youtube_captures, call, ret>>
  /\ UNCHANGED <<captures, nreq>>

\* POST /fix up to the await of callLLM (lines 32-69)
FixReceive(capture_id, record_id, existing_record) ==
  /\ nreq < MaxRequests
  /\ LET req == nreq + 1
         currentRecord == ResolveCurrentRecord(records, record_id, existing_record)
         ctx == [req |-> req, route |-> "fix", capture_id |-> capture_id, log_id |-> 0,
                 record_id |-> record_id,
                 llm_input |-> buildFixInput("correction", currentRecord)]
     IN /\ nreq' = req
        /\ IF currentRecord = Null
           THEN /\ last' = [NoResponse EXCEPT !.req = req, !.route = "fix", !.http = 400,
                                              !.capture_id = capture_id,
                                              !.error = "Could not find existing record to fix"]
                /\ inflight' = inflight
           ELSE /\ inflight' = inflight \cup {ctx}
                /\ last' = last
        /\ page' = NoPage
        /\ UNCHANGED <<youtube_captures, call, ret>>
        /\ UNCHANGED <<captures, records, inbox_log>>

\* POST /fix after callLLM has returned llmResponse (lines 71-312)
FixResume(ctx, llmResponse) ==
  /\ ctx \in inflight
  /\ ctx.route = "fix"
  /\ LET o == FixFinish(ctx, llmResponse, captures, records, inbox_log) IN
     /\ records' = o.records
     /\ inbox_log' = o.inbox_log
     /\ last' = o.resp
  /\ inflight' = inflight \ {ctx}
  /\ page' = NoPage
  /\ UNCHANGED <<youtube_captures, call, ret>>
  /\ UNCHANGED <<captures, nreq>>

\* GET /recent: a read of captures and inbox_log; page is its answer, kept
\* until the next step of a capture or a fix
Recent(limitQuery, cursorQuery) ==
  /\ page' = RecentResponse(captures, inbox_log, youtube_captures, limitQuery, cursorQuery)
  /\ UNCHANGED <<captures, records, inbox_log, youtube_captures, inflight, last, nreq, call, ret>>

\* the limit a client sends: absent, or a number; the cursor it sends: absent,
\* or the next_cursor of the page it was given last
LimitQueries == {Undef, Str(<<"1">>)}
CursorQueries == {Undef, page.next_cursor}

\* ids a client can name: those the server has handed out, and one it has
\* not; for record_id also null and the empty string
CaptureIds == {Uuid(k) : k \in 0..nreq}
RecordIds == {Null, Str("")} \cup {r.record_id : r \in records} \cup {Uuid(0)}

Next ==
  \/ \E raw_text \in RawTexts : CaptureReceive(raw_text)
  \/ \E ctx \in inflight : \E llmResponse \in ClassifierTexts : CaptureResume(ctx, llmResponse)
  \/ \E capture_id \in CaptureIds : \E record_id \in RecordIds :
       \E existing_record \in ClientRecords \cup {Null} :
         FixReceive(capture_id, record_id, existing_record)
  \/ \E ctx \in inflight : \E llmResponse \in FixerTexts : FixResume(ctx, llmResponse)
  \/ \E limitQuery \in LimitQueries : \E cursorQuery \in CursorQueries :
       Recent(limitQuery, cursorQuery)

Spec == Init /\ [][Next]_vars

(* ----------------------- one client, well-formed ----------------------- *)
\* The same handlers when requests do not overlap and a fix names a capture
\* the server has stored, with the record of that capture or the placeholder
\* the client was given: the only thing left open is the text of the LLM.
OwnRecordIds(capture_id) ==
  {Null} \cup {r.record_id : r \in {x \in records : x.capture_id = capture_id}}

NextSequential ==
  \/ /\ inflight = {}
     /\ \E raw_text \in RawTexts : CaptureReceive(raw_text)
  \/ \E ctx \in inflight : \E llmResponse \in ClassifierTexts : CaptureResume(ctx, llmResponse)
  \/ /\ inflight = {}
     /\ \E c \in captures : \E record_id \in OwnRecordIds(c.capture_id) :
          \E existing_record \in ClientRecords :
            FixReceive(c.capture_id, record_id, existing_record)
  \/ \E ctx \in inflight : \E llmResponse \in FixerTexts : FixResume(ctx, llmResponse)
  \/ \E limitQuery \in LimitQueries : \E cursorQuery \in CursorQueries :
       Recent(limitQuery, cursorQuery)

SpecSequential == Init /\ [][NextSequential]_vars

(* --------------------------- the LLM call fails ------------------------- *)
\* await callLLM(...) rejects (client.ts:51-60: no API key, network error,
\* time-out of the SDK): the throw lands in the catch of the handler
CaptureCallFails(ctx) ==
  /\ ctx \in inflight
  /\ ctx.route = "capture"
  /\ last' = ServerError(ctx, "callLLM", {"captures"})
  /\ inflight' = inflight \ {ctx}
  /\ page' = NoPage
  /\ UNCHANGED <<youtube_captures, call, ret>>
  /\ UNCHANGED <<captures, records, inbox_log, nreq>>

FixCallFails(ctx) ==
  /\ ctx \in inflight
  /\ ctx.route = "fix"
  /\ last' = ServerError(ctx, "callLLM", {})
  /\ inflight' = inflight \ {ctx}
  /\ page' = NoPage
  /\ UNCHANGED <<youtube_captures, call, ret>>
  /\ UNCHANGED <<captures, records, inbox_log, nreq>>

NextLLMFailure ==
  \/ Next
  \/ \E ctx \in inflight : CaptureCallFails(ctx)
  \/ \E ctx \in inflight : FixCallFails(ctx)

SpecLLMFailure == Init /\ [][NextLLMFailure]_vars

(* ------------------------- the documented example ----------------------- *)
\* "Follow up with Ben about insulation. Also call the electrician; and check
\* supplier pricing."
TextFollowUp ==
  <<"F","o","l","l","o","w"," ","u","p"," ","w","i","t","h"," ","B","e","n"," ",
    "a","b","o","u","t"," ","i","n","s","u","l","a","t","i","o","n","."," ",
    "A","l","s","o"," ","c","a","l","l"," ","t","h","e"," ",
    "e","l","e","c","t","r","i","c","i","a","n",";"," ","a","n","d"," ",
    "c","h","e","c","k"," ","s","u","p","p","l","i","e","r"," ",
    "p","r","i","c","i","n","g",".">>
ExampleTexts == {TextFollowUp}

\* the server when the captures submitted are the documented example
NextExample ==
  \/ \E raw_text \in ExampleTexts : CaptureReceive(raw_text)
  \/ \E ctx \in inflight : \E llmResponse \in ClassifierTexts : CaptureResume(ctx, llmResponse)
  \/ \E capture_id \in CaptureIds : \E record_id \in RecordIds :
       \E existing_record \in ClientRecords \cup {Null} :
         FixReceive(capture_id, record_id, existing_record)
  \/ \E ctx \in inflight : \E llmResponse \in FixerTexts : FixResume(ctx, llmResponse)
  \/ \E limitQuery \in LimitQueries : \E cursorQuery \in CursorQueries :
       Recent(limitQuery, cursorQuery)

SpecExample == Init /\ [][NextExample]_vars

\* ---------------------------------------------------------------------------
\* POST /youtube/capture and the feed over both tables
\* ---------------------------------------------------------------------------

\* what the client sends as youtube.captured_at: a timestamp, or a text that
\* is none; the route stores it unchecked as created_at
CapturedAts == Timestamps \cup {"yesterday"}
VideoIds == {"v1", "v2"}

\* POST /youtube/capture (lines 36-268): a video already stored is answered
\* with its id; otherwise the transcript, metadata and summary stages either
\* all succeed and one completed row is inserted, or one fails and nothing is
\* written. The row a request inserts does not depend on what other requests
\* do between its stages, and video_id is UNIQUE, so the stages are one step.
YoutubeCapture(video_id, captured_at, stagesSucceed) ==
  /\ nreq < MaxRequests
  /\ nreq' = nreq + 1
  /\ youtube_captures' =
       IF stagesSucceed /\ \A yc \in youtube_captures : yc.video_id # video_id
       THEN youtube_captures \cup
              {[id |-> Uuid(nreq + 1), video_id |-> video_id, title |-> Str("Video"),
                summary |-> <<"S","u","m","m","a","r","y">>, status |-> "completed",
                created_at |-> captured_at]}
       ELSE youtube_captures
  /\ page' = NoPage
  /\ UNCHANGED <<captures, records, inbox_log, inflight, last, call, ret>>

\* the inputs of the feed: one capture text, a classifier that files or asks,
\* a fixer that fixes or asks, and limits of one, two, the default,
\* zero, a negative number, a number above the maximum and a word
FeedClassifierTexts ==
  { LLMText("plain", Output(Str("filed"), Str("admin"), Str("Renew domain"), Num(90), Null,
                            GoodRecord)),
    LLMText("plain", Output(Str("needs_review"), Str("project"), Str("Alpha"), Num(90),
                            Str("Which project?"), GoodRecord)) }
FeedFixerTexts ==
  { LLMText("plain", Output(Str("fixed"), Undef, Undef, Num(85), Null, GoodRecord)),
    LLMText("plain", Output(Str("needs_review"), Undef, Undef, Num(45),
                            Str("Please provide more specific details"), Undef)) }
FeedLimitQueries ==
  {Undef, Str(<<"1">>), Str(<<"2">>), Str(<<"0">>), Str(<<"-", "5">>), Str(<<"5", "0", "0">>),
   Str(<<"a", "b", "c">>)}

NextFeed ==
  \/ CaptureReceive(TextSingle)
  \/ \E ctx \in inflight : \E llmResponse \in FeedClassifierTexts : CaptureResume(ctx, llmResponse)
  \/ \E capture_id \in {c.capture_id : c \in captures} :
       \E record_id \in {Null} \cup {r.record_id : r \in records} :
         \E existing_record \in ClientRecords \cup {Null} :
           FixReceive(capture_id, record_id, existing_record)
  \/ \E ctx \in inflight : \E llmResponse \in FeedFixerTexts : FixResume(ctx, llmResponse)
  \/ \E video_id \in VideoIds : \E captured_at \in CapturedAts : \E stagesSucceed \in BOOLEAN :
       YoutubeCapture(video_id, captured_at, stagesSucceed)
  \/ \E limitQuery \in FeedLimitQueries : \E cursorQuery \in CursorQueries :
       Recent(limitQuery, cursorQuery)

SpecFeed == Init /\ [][NextFeed]_vars

\* loadRecent, called again with each next_cursor until it is null: the items
\* gathered, and whether the end of the feed was reached; an error response
\* ends the loading, and at most pages + 1 requests are made
RECURSIVE loadRecent(_, _, _)
loadRecent(limitQuery, cursorQuery, pages) ==
  LET data == RecentResponse(captures, inbox_log, youtube_captures, limitQuery, cursorQuery)
  IN IF data.http # 200 THEN [ended |-> FALSE, items |-> <<>>]
     ELSE IF data.next_cursor = Null THEN [ended |-> TRUE, items |-> data.items]
     ELSE IF pages = 0 THEN [ended |-> FALSE, items |-> data.items]
     ELSE LET more == loadRecent(limitQuery, data.next_cursor, pages - 1)
          IN [ended |-> more.ended, items |-> data.items \o more.items]

(* --------------------------- jsonGuard on text -------------------------- *)
\* JSON values: Null, Bool(b), Num(n) for an integer n, Str(s) for a sequence
\* of characters s, Arr(a) for a sequence of values and Obj(o) for a sequence
\* of <<key, value>> pairs with distinct keys.
Bool(b) == [t |-> "bool", b |-> b]

Quote == "\""
Backslash == "\\"

\* JSON.stringify of an integer
StringifyNumber(n) == IF n < 0 THEN <<"-">> \o ToDecimal(0 - n) ELSE ToDecimal(n)

\* JSON.stringify of a string: quotes around it, with the quote, the backslash
\* and the control characters escaped
RECURSIVE EscapeChars(_)
EscapeChars(s) ==
  IF s = <<>> THEN <<>>
  ELSE (CASE Head(s) = Quote -> <<Backslash, Quote>>
          [] Head(s) = Backslash -> <<Backslash, Backslash>>
          [] Head(s) = "\n" -> <<Backslash, "n">>
          [] Head(s) = "\t" -> <<Backslash, "t">>
          [] OTHER -> <<Head(s)>>) \o EscapeChars(Tail(s))
StringifyString(s) == <<Quote>> \o EscapeChars(s) \o <<Quote>>

\* JSON.stringify(x), with no indentation
RECURSIVE Stringify(_)
RECURSIVE StringifyElements(_)
RECURSIVE StringifyMembers(_)
Stringify(x) ==
  CASE x.t = "null" -> <<"n", "u", "l", "l">>
    [] x.t = "bool" -> IF x.b THEN <<"t", "r", "u", "e">> ELSE <<"f", "a", "l", "s", "e">>
    [] x.t = "num" -> StringifyNumber(x.n)
    [] x.t = "str" -> StringifyString(x.s)
    [] x.t = "arr" -> <<"[">> \o StringifyElements(x.a) \o <<"]">>
    [] x.t = "obj" -> <<"{">> \o StringifyMembers(x.o) \o <<"}">>
StringifyElements(a) ==
  IF a = <<>> THEN <<>>
  ELSE Stringify(Head(a)) \o (IF Len(a) > 1 THEN <<",">> ELSE <<>>)
         \o StringifyElements(Tail(a))
StringifyMembers(o) ==
  IF o = <<>> THEN <<>>
  ELSE StringifyString(Head(o)[1]) \o <<":">> \o Stringify(Head(o)[2])
         \o (IF Len(o) > 1 THEN <<",">> ELSE <<>>) \o StringifyMembers(Tail(o))

\* JSON.parse: a value read from position i of text, and the position after it
NoParse == [ok |-> FALSE, v |-> Null, next |-> 0]
Parsed(v, next) == [ok |-> TRUE, v |-> v, next |-> next]
CharAt(text, i) == IF i >= 1 /\ i <= Len(text) THEN text[i] ELSE ""

RECURSIVE SkipWhitespace(_, _)
SkipWhitespace(text, i) ==
  IF CharAt(text, i) \in Whitespace THEN SkipWhitespace(text, i + 1) ELSE i

RECURSIVE DigitsEnd(_, _)
DigitsEnd(text, i) == IF CharAt(text, i) \in Digits THEN DigitsEnd(text, i + 1) ELSE i

ParseLiteral(text, i, word, v) ==
  IF i + Len(word) - 1 <= Len(text) /\ SubSeq(text, i, i + Len(word) - 1) = word
  THEN Parsed(v, i + Len(word)) ELSE NoParse

\* an integer: an optional minus, then 0 or digits that do not start with 0; a
\* fraction or an exponent is outside the values considered
ParseNumber(text, i) ==
  LET first == IF CharAt(text, i) = "-" THEN i + 1 ELSE i
      after == IF CharAt(text, first) = "0" THEN first + 1 ELSE DigitsEnd(text, first)
      n == LeadingDigits(SubSeq(text, first, after - 1), 0)
  IN IF after = first \/ CharAt(text, after) \in {".", "e", "E"} THEN NoParse
     ELSE Parsed(Num(IF first > i THEN 0 - n ELSE n), after)

\* the characters of a string from position i (after the opening quote)
RECURSIVE ParseString(_, _, _)
ParseString(text, i, acc) ==
  LET c == CharAt(text, i)
      e == CharAt(text, i + 1)
  IN CASE c = Quote -> Parsed(Str(acc), i + 1)
       [] c = Backslash /\ e \in {Quote, Backslash, "/"} -> ParseString(text, i + 2, Append(acc, e))
       [] c = Backslash /\ e = "n" -> ParseString(text, i + 2, Append(acc, "\n"))
       [] c = Backslash /\ e = "t" -> ParseString(text, i + 2, Append(acc, "\t"))
       [] c \in {"", Backslash, "\n", "\t"} -> NoParse
       [] OTHER -> ParseString(text, i + 1, Append(acc, c))

\* a member added to an object: a key that is there already gets the new value
PutMember(o, key, v) ==
  IF \E k \in 1..Len(o) : o[k][1] = key
  THEN [k \in 1..Len(o) |-> IF o[k][1] = key THEN <<key, v>> ELSE o[k]]
  ELSE Append(o, <<key, v>>)

RECURSIVE ParseValue(_, _)
RECURSIVE ParseElements(_, _, _)
RECURSIVE ParseMembers(_, _, _)
ParseValue(text, i) ==
  LET c == CharAt(text, i) IN
  CASE c = "n" -> ParseLiteral(text, i, <<"n", "u", "l", "l">>, Null)
    [] c = "t" -> ParseLiteral(text, i, <<"t", "r", "u", "e">>, Bool(TRUE))
    [] c = "f" -> ParseLiteral(text, i, <<"f", "a", "l", "s", "e">>, Bool(FALSE))
    [] c = Quote -> ParseString(text, i + 1, <<>>)
    [] c = "-" \/ c \in Digits -> ParseNumber(text, i)
    [] c = "[" ->
         IF CharAt(text, SkipWhitespace(text, i + 1)) = "]"
         THEN Parsed(Arr(<<>>), SkipWhitespace(text, i + 1) + 1)
         ELSE ParseElements(text, SkipWhitespace(text, i + 1), <<>>)
    [] c = "{" ->
         IF CharAt(text, SkipWhitespace(text, i + 1)) = "}"
         THEN Parsed(Obj(<<>>), SkipWhitespace(text, i + 1) + 1)
         ELSE ParseMembers(text, SkipWhitespace(text, i + 1), <<>>)
    [] OTHER -> NoParse
ParseElements(text, i, acc) ==
  LET r == ParseValue(text, i)
      j == SkipWhitespace(text, r.next)
  IN IF ~r.ok THEN NoParse
     ELSE IF CharAt(text, j) = "," THEN ParseElements(text, SkipWhitespace(text, j + 1), Append(acc, r.v))
     ELSE IF CharAt(text, j) = "]" THEN Parsed(Arr(Append(acc, r.v)), j + 1)
     ELSE NoParse
ParseMembers(text, i, acc) ==
  LET key == IF CharAt(text, i) = Quote THEN ParseString(text, i + 1, <<>>) ELSE NoParse
      colon == SkipWhitespace(text, key.next)
      r == IF key.ok /\ CharAt(text, colon) = ":"
           THEN ParseValue(text, SkipWhitespace(text, colon + 1)) ELSE NoParse
      j == SkipWhitespace(text, r.next)
  IN IF ~r.ok THEN NoParse
     ELSE IF CharAt(text, j) = "," THEN ParseMembers(text, SkipWhitespace(text, j + 1), PutMember(acc, key.v.s, r.v))
     ELSE IF CharAt(text, j) = "}" THEN Parsed(Obj(PutMember(acc, key.v.s, r.v)), j + 1)
     ELSE NoParse

\* JSON.parse(text): one value with white space around it, or a SyntaxError
JSONParseText(text) ==
  LET r == ParseValue(text, SkipWhitespace(text, 1)) IN
  IF r.ok /\ SkipWhitespace(text, r.next) = Len(text) + 1
  THEN [threw |-> FALSE, data |-> r.v]
  ELSE [threw |-> TRUE, data |-> Undef]

\* the grave accent (U+0060), which a TLA+ string cannot hold, under a name
Backtick == "grave"
Fence == <<Backtick, Backtick, Backtick>>
StartsAt(text, i, word) ==
  i + Len(word) - 1 <= Len(text) /\ SubSeq(text, i, i + Len(word) - 1) = word

\* /```(?:json)?\s*(\{[\s\S]*?\})\s*```/: the first fence that is followed by
\* a group { ... } and a closing fence, and the shortest such group
MarkdownMatch(text) ==
  LET open(i) == LET j == IF StartsAt(text, i + 3, <<"j", "s", "o", "n">>) THEN i + 7 ELSE i + 3
                 IN SkipWhitespace(text, j)
      closes(i, b) == /\ StartsAt(text, i, Fence)
                      /\ CharAt(text, open(i)) = "{"
                      /\ b > open(i) /\ CharAt(text, b) = "}"
                      /\ StartsAt(text, SkipWhitespace(text, b + 1), Fence)
      starts == {i \in 1..Len(text) : \E b \in 1..Len(text) : closes(i, b)}
      first == CHOOSE i \in starts : \A o \in starts : i <= o
      ends == {b \in 1..Len(text) : closes(first, b)}
      last_ == CHOOSE b \in ends : \A o \in ends : b <= o
  IN IF starts = {} THEN <<>> ELSE SubSeq(text, open(first), last_)

\* /\{[\s\S]*\}/: from the first { to the last } after it
JsonMatch(text) ==
  LET opens == {i \in 1..Len(text) : text[i] = "{"}
      first == CHOOSE i \in opens : \A o \in opens : i <= o
      closes == {b \in 1..Len(text) : text[b] = "}" /\ b > first}
      last_ == CHOOSE b \in closes : \A o \in closes : b >= o
  IN IF opens = {} THEN <<>> ELSE IF closes = {} THEN <<>> ELSE SubSeq(text, first, last_)

\* the three strategies without the first, the direct parse
parseJSONFromLLMTextNoDirectParse(llmResponse) ==
  LET trimmed == Trim(llmResponse)
      markdown == MarkdownMatch(trimmed)
      json == JsonMatch(trimmed)
  IN IF trimmed = <<>> THEN [threw |-> TRUE, data |-> Undef, message |-> "Empty LLM response"]
     ELSE IF markdown # <<>> /\ ~JSONParseText(markdown).threw
     THEN [threw |-> FALSE, data |-> JSONParseText(markdown).data, message |-> ""]
     ELSE IF json # <<>> /\ ~JSONParseText(json).threw
     THEN [threw |-> FALSE, data |-> JSONParseText(json).data, message |-> ""]
     ELSE [threw |-> TRUE, data |-> Undef,
           message |-> "Could not extract valid JSON from LLM response"]

\* parseJSONFromLLM on the characters of the response
parseJSONFromLLMText(llmResponse) ==
  LET trimmed == Trim(llmResponse)
      markdown == MarkdownMatch(trimmed)
      json == JsonMatch(trimmed)
  IN IF trimmed = <<>> THEN [threw |-> TRUE, data |-> Undef, message |-> "Empty LLM response"]
     ELSE IF ~JSONParseText(trimmed).threw
     THEN [threw |-> FALSE, data |-> JSONParseText(trimmed).data, message |-> ""]
     ELSE IF markdown # <<>> /\ ~JSONParseText(markdown).threw
     THEN [threw |-> FALSE, data |-> JSONParseText(markdown).data, message |-> ""]
     ELSE IF json # <<>> /\ ~JSONParseText(json).threw
     THEN [threw |-> FALSE, data |-> JSONParseText(json).data, message |-> ""]
     ELSE [threw |-> TRUE, data |-> Undef,
           message |-> "Could not extract valid JSON from LLM response"]

\* parseJSONSafe on the characters of the response: the result object, and
\* whether the call threw (it has no path that does)
parseJSONSafeText(llmResponse) ==
  LET r == parseJSONFromLLMText(llmResponse) IN
  IF r.threw THEN [success |-> FALSE, data |-> Undef, error |-> r.message, threw |-> FALSE]
  ELSE [success |-> TRUE, data |-> r.data, error |-> "", threw |-> FALSE]

\* JSON-serializable values: scalars, and arrays and objects of them, nested
\* one level
JsonScalars ==
  { Null, Bool(TRUE), Bool(FALSE), Num(0), Num(7), Num(0 - 12), Num(100),
    Str(<<>>), Str(<<" ">>), Str(<<"a", "b">>), Str(<<Quote>>), Str(<<Backslash>>),
    Str(<<"\n">>), Str(<<"{", "}">>), Str(<<"n", "u", "l", "l">>), Str(<<" ", "x", " ">>),
    Str(Fence) }
JsonKeys == {<<"a">>, <<>>, <<"b", Quote>>}
JsonFlat ==
  JsonScalars \cup {Arr(<<>>), Obj(<<>>)}
    \cup {Arr(<<x>>) : x \in JsonScalars}
    \cup {Arr(<<Num(7), x>>) : x \in JsonScalars}
    \cup {Obj(<<<<k, x>>>>) : k \in JsonKeys, x \in {Null, Num(7), Str(<<"a", "b">>), Str(<<"}">>)}}
    \cup {Obj(<<<<<<"a">>, x>>, <<<<"b">>, Bool(FALSE)>>>>) : x \in {Null, Num(7), Str(<<"{">>)}}
JsonValues ==
  JsonFlat \cup {Arr(<<x>>) : x \in {Arr(<<Num(7)>>), Obj(<<<<<<"a">>, Null>>>>), Arr(<<>>)}}
           \cup {Obj(<<<<<<"a">>, x>>>>) : x \in {Arr(<<Num(7), Null>>), Obj(<<<<<<"b">>, Str(<<"}">>)>>>>), Obj(<<>>)}}

\* responses that are not JSON: empty, white space only, prose, broken JSON;
\* and JSON with white space, a fence or prose around it
NotJsonTexts ==
  { <<>>, <<" ">>, <<"\n", " ", "\t">>,
    <<"n", "o", "t", " ", "j", "s", "o", "n", " ", "a", "t", " ", "a", "l", "l">>,
    <<"{">>, <<"{", "o", "o", "p", "s", "}">>, <<"[", "1", ",">>, <<"}", " ", "{">>,
    <<Quote, "a">>, <<"0", "1">>, <<"n", "u", "l">>,
    Fence \o <<"j", "s", "o", "n", "\n", "{", "x", "}", "\n">> \o Fence }
WrappedTexts ==
  { <<" ", "{", Quote, "a", Quote, ":", " ", "1", "}", "\n">>,
    Fence \o <<"j", "s", "o", "n", "\n", "{", Quote, "a", Quote, ":", "1", "}", "\n">> \o Fence,
    <<"H", "i", " ">> \o Fence \o <<"{", "}">> \o Fence \o <<" ", "{", "x", "}">>,
    <<"S", "o", ":", " ", "{", Quote, "a", Quote, ":", "[", "1", "]", "}", " ", "o", "k">>,
    <<"[", "1", "]", " ", "{", "}">> }

\* the guard called on its own: on JSON.stringify(x), or on a response text
InitJsonGuard ==
  /\ captures = {} /\ records = {} /\ inbox_log = <<>> /\ youtube_captures = {}
  /\ inflight = {} /\ last = NoResponse /\ nreq = 0 /\ page = NoPage
  /\ call \in {[fn |-> "stringify", x |-> x] : x \in JsonValues}
               \cup {[fn |-> "text", x |-> Str(t)] : t \in NotJsonTexts \cup WrappedTexts}
  /\ ret = NoCall

ParseStringified ==
  /\ call.fn = "stringify" /\ ret = NoCall
  /\ ret' = [fn |-> "parseJSONSafe", llmResponse |-> Stringify(call.x),
             result |-> parseJSONSafeText(Stringify(call.x))]
  /\ UNCHANGED <<captures, records, inbox_log, youtube_captures, inflight, last, nreq, page, call>>

ParseResponseText ==
  /\ call.fn = "text" /\ ret = NoCall
  /\ ret' = [fn |-> "parseJSONSafe", llmResponse |-> call.x.s,
             result |-> parseJSONSafeText(call.x.s)]
  /\ UNCHANGED <<captures, records, inbox_log, youtube_captures, inflight, last, nreq, page, call>>

NextJsonGuard == ParseStringified \/ ParseResponseText

SpecJsonGuard == InitJsonGuard /\ [][NextJsonGuard]_vars

(* ------------------------- the empty record alone ----------------------- *)
\* buildEmptyCanonicalRecord called on its own with a valid type, a confidence
\* in [0, 1] (in hundredths) and a question that is a string or null
EmptyRecordConfidences == {0, 1, 20, 30, 50, 59, 60, 100}
EmptyRecordQuestions == {Null, Str(""), Str("Which project?")}

InitEmptyRecord ==
  /\ captures = {} /\ records = {} /\ inbox_log = <<>> /\ youtube_captures = {}
  /\ inflight = {} /\ last = NoResponse /\ nreq = 0 /\ page = NoPage
  /\ call \in {[fn |-> "buildEmptyCanonicalRecord", type |-> Str(t), confidence |-> Num(c),
                clarification_question |-> q] :
               t \in RecordTypes, c \in EmptyRecordConfidences, q \in EmptyRecordQuestions}
  /\ ret = NoCall

BuildEmptyRecord ==
  /\ call.fn = "buildEmptyCanonicalRecord" /\ ret = NoCall
  /\ LET record == buildEmptyCanonicalRecord(call.type, call.confidence, call.clarification_question)
     IN ret' = [fn |-> "buildEmptyCanonicalRecord", record |-> record,
                parses |-> CanonicalRecordSchema(record),
                validation |-> safeValidateCanonicalRecord(Obj(record))]
  /\ UNCHANGED <<captures, records, inbox_log, youtube_captures, inflight, last, nreq, page, call>>

SpecEmptyRecord == InitEmptyRecord /\ [][BuildEmptyRecord]_vars

(* ---------------------- requests that lack a field ---------------------- *)
\* POST /capture with a body that lacks a required object. The handler has no
\* check of the body: destructuring capture (line 30) or reading context.url
\* or client.app for the INSERT (lines 51-59) throws a TypeError before any
\* statement runs, and the catch answers 500 (lines 343-349).
CaptureMissing == {"capture", "context", "client"}
CaptureMalformed(missing) ==
  /\ nreq < MaxRequests
  /\ nreq' = nreq + 1
  /\ last' = ServerError([req |-> nreq + 1, route |-> "capture", capture_id |-> Null],
                         "TypeError: " \o missing \o " is undefined", {})
  /\ page' = NoPage
  /\ UNCHANGED <<captures, records, inbox_log, youtube_captures, inflight, call, ret>>

\* POST /fix with a body that lacks fix: destructuring it (fix.ts:38) throws
\* and the catch answers 500 (fix.ts:305-311)
FixMissing == {"fix"}
FixMalformed(missing) ==
  /\ nreq < MaxRequests
  /\ nreq' = nreq + 1
  /\ last' = ServerError([req |-> nreq + 1, route |-> "fix", capture_id |-> Null],
                         "TypeError: " \o missing \o " is undefined", {})
  /\ page' = NoPage
  /\ UNCHANGED <<captures, records, inbox_log, youtube_captures, inflight, call, ret>>

NextMalformed ==
  \/ Next
  \/ \E missing \in CaptureMissing : CaptureMalformed(missing)
  \/ \E missing \in FixMissing : FixMalformed(missing)

SpecMalformed == Init /\ [][NextMalformed]_vars

(* ------------------------ records without a title ----------------------- *)
\* a record whose title is the empty string, as an LLM may return it
UntitledRecord == Obj([GoodRecord.o EXCEPT !.title = Str("")])

\* a classifier and a fixer that return a titled or an untitled record, or ask
UntitledClassifierTexts ==
  { LLMText("plain", Output(Str("filed"), Str("admin"), Str(""), Num(90), Null,
                            UntitledRecord)),
    LLMText("plain", Output(Str("filed"), Str("admin"), Str("Renew domain"), Num(90), Null,
                            GoodRecord)),
    LLMText("plain", Output(Str("needs_review"), Str("admin"), Str(""), Num(40),
                            Str("What is this?"), UntitledRecord)) }
UntitledFixerTexts ==
  { LLMText("plain", Output(Str("fixed"), Undef, Undef, Num(85), Null, UntitledRecord)),
    LLMText("plain", Output(Str("fixed"), Undef, Undef, Num(85), Null, GoodRecord)) }

NextUntitled ==
  \/ \E raw_text \in RawTexts : CaptureReceive(raw_text)
  \/ \E ctx \in inflight : \E llmResponse \in UntitledClassifierTexts :
       CaptureResume(ctx, llmResponse)
  \/ \E capture_id \in CaptureIds : \E record_id \in RecordIds :
       \E existing_record \in ClientRecords \cup {Null} :
         FixReceive(capture_id, record_id, existing_record)
  \/ \E ctx \in inflight : \E llmResponse \in UntitledFixerTexts : FixResume(ctx, llmResponse)
  \/ \E limitQuery \in LimitQueries : \E cursorQuery \in CursorQueries :
       Recent(limitQuery, cursorQuery)

SpecUntitled == Init /\ [][NextUntitled]_vars

(* -------------------------- the detector alone -------------------------- *)
\* pieces of text: words, sentence ends, connectors in both cases, a
\* semicolon, line breaks and list markers
DetectorTokens ==
  { <<"a">>, <<" ">>, <<"\n">>, <<".", " ">>, <<"a", ".", " ", "b", "?", "\t">>,
    <<"a", "l", "s", "o">>, <<"P", "l", "u", "s">>, <<";">>,
    <<"1", ".">>, <<"2", "3", ")">>, <<"-">>, <<"*", " ">>, <<"!">> }
MaxTokens == 3

\* the texts made of at most n pieces
RECURSIVE TokenTexts(_)
TokenTexts(n) ==
  IF n = 0 THEN {<<>>}
  ELSE LET shorter == TokenTexts(n - 1)
       IN shorter \cup {t \o k : t \in shorter, k \in DetectorTokens}

InitDetector ==
  /\ captures = {} /\ records = {} /\ inbox_log = <<>> /\ youtube_captures = {}
  /\ inflight = {} /\ last = NoResponse /\ nreq = 0 /\ page = NoPage
  /\ call \in {[fn |-> "detectMultipleThoughts", x |-> Str(t)] : t \in TokenTexts(MaxTokens)}
  /\ ret = NoCall

\* detectMultipleThoughts(raw_text)
Detect ==
  /\ call.fn = "detectMultipleThoughts" /\ ret = NoCall
  /\ ret' = [fn |-> "detectMultipleThoughts", raw_text |-> call.x.s,
             result |-> detectMultipleThoughts(call.x.s)]
  /\ UNCHANGED <<captures, records, inbox_log, youtube_captures, inflight, last, nreq, page, call>>

SpecDetector == InitDetector /\ [][Detect]_vars

(* ------------------------- validation on its own ------------------------ *)
\* values a caller may pass as a record: no object at all, or an object
\* whose buckets are missing, primitives, arrays, or objects with a wrong
\* enum value or a due_date that is no YYYY-MM-DD
PersonValues == {NullPerson, Undef, Null, Str("x"), Num(1), Arr(<<>>)}
ProjectValues ==
  {ActiveProject, Undef, Num(0),
   Obj([project_name |-> Null, project_status |-> Str("paused"), next_action |-> Null,
        notes |-> Null])}
AdminValues ==
  {Obj([task |-> Null, due_date |-> IsoDate, task_status |-> Str("open"), notes |-> Null]),
   Null, Str("x"),
   Obj([task |-> Null, due_date |-> Null, task_status |-> Str("later"), notes |-> Null]),
   Obj([task |-> Null, due_date |-> RelativeDate, task_status |-> Str("open"),
        notes |-> Null])}
RecordValues ==
  {Null, Undef, Num(1), Str("x"), Arr(<<>>)}
    \cup {Obj([GoodRecord.o EXCEPT !.person = person, !.project = project, !.admin = admin]) :
            person \in PersonValues, project \in ProjectValues, admin \in AdminValues}

InitValidate ==
  /\ captures = {} /\ records = {} /\ inbox_log = <<>> /\ youtube_captures = {}
  /\ inflight = {} /\ last = NoResponse /\ nreq = 0 /\ page = NoPage
  /\ call \in {[fn |-> "validate", x |-> x] : x \in RecordValues}
  /\ ret = NoCall

\* normalizeCanonicalRecord(record), called directly
Normalize ==
  /\ call.fn = "validate" /\ ret = NoCall
  /\ ret' = [fn |-> "normalizeCanonicalRecord", record |-> call.x,
             threw |-> normalizeCanonicalRecord(call.x).threw,
             success |-> FALSE]
  /\ UNCHANGED <<captures, records, inbox_log, youtube_captures, inflight, last, nreq, page, call>>

\* safeValidateCanonicalRecord(record): the try block catches what
\* normalization or the schema throws
SafeValidate ==
  /\ call.fn = "validate" /\ ret = NoCall
  /\ ret' = [fn |-> "safeValidateCanonicalRecord", record |-> call.x,
             threw |-> FALSE,
             success |-> safeValidateCanonicalRecord(call.x).success]
  /\ UNCHANGED <<captures, records, inbox_log, youtube_captures, inflight, last, nreq, page, call>>

NextValidate == Normalize \/ SafeValidate

SpecValidate == InitValidate /\ [][NextValidate]_vars

(* ----------------------- paging while fixes arrive ---------------------- *)
\* the store after one capture has been filed: its Capture row, its Record
\* row and its audit entry
FiledText ==
  LLMText("plain", Output(Str("filed"), Str("admin"), Str("Renew domain"), Num(90), Null,
                          GoodRecord))
FirstCapture ==
  LET ctx == [req |-> 0, route |-> "capture", capture_id |-> Uuid(0), log_id |-> 1,
              record_id |-> Null, llm_input |-> buildClassifierInputFromCapture(TextSingle)]
      caps == {[capture_id |-> Uuid(0), raw_text |-> TextSingle]}
      o == CaptureFinish(ctx, FiledText, caps, {}, <<>>)
  IN [captures |-> caps, records |-> o.records, inbox_log |-> o.inbox_log, resp |-> o.resp]

InitPaging ==
  /\ captures = FirstCapture.captures
  /\ records = FirstCapture.records
  /\ inbox_log = FirstCapture.inbox_log
  /\ last = FirstCapture.resp
  /\ youtube_captures = {} /\ inflight = {} /\ nreq = 0 /\ page = NoPage
  /\ call = NoCall /\ ret = NoCall

PagingLimits == {Str(<<"1">>), Str(<<"2">>)}

\* the captures of the items of a page
PageCaptures(data) == {data.items[i].capture_id : i \in 1..Len(data.items)}

\* loadRecent(): the first page; call holds what the client has gathered, and
\* the captures that had an audit entry when this page was fetched
LoadFirstPage(limitQuery) ==
  /\ call = NoCall
  /\ LET data == RecentResponse(captures, inbox_log, youtube_captures, limitQuery, Undef) IN
     /\ page' = data
     /\ call' = [fn |-> "loadRecent", limit |-> limitQuery,
                 had |-> {inbox_log[i].capture_id : i \in 1..Len(inbox_log)},
                 seen |-> PageCaptures(data), next_cursor |-> data.next_cursor]
  /\ UNCHANGED <<captures, records, inbox_log, youtube_captures, inflight, last, nreq, ret>>

\* loadRecent(nextCursor): the items are appended to those gathered
LoadNextPage ==
  /\ call # NoCall
  /\ call.next_cursor # Null
  /\ LET data == RecentResponse(captures, inbox_log, youtube_captures, call.limit,
                                call.next_cursor) IN
     /\ page' = data
     /\ call' = [call EXCEPT !.seen = call.seen \cup PageCaptures(data),
                             !.next_cursor = data.next_cursor]
  /\ UNCHANGED <<captures, records, inbox_log, youtube_captures, inflight, last, nreq, ret>>

NextPaging ==
  \/ CaptureReceive(TextSingle)
  \/ \E ctx \in inflight : \E llmResponse \in FeedClassifierTexts : CaptureResume(ctx, llmResponse)
  \/ \E capture_id \in {c.capture_id : c \in captures} :
       \E record_id \in {Null} \cup {r.record_id : r \in records} :
         \E existing_record \in ClientRecords \cup {Null} :
           FixReceive(capture_id, record_id, existing_record)
  \/ \E ctx \in inflight : \E llmResponse \in FeedFixerTexts : FixResume(ctx, llmResponse)
  \/ \E limitQuery \in PagingLimits : LoadFirstPage(limitQuery)
  \/ LoadNextPage

SpecPaging == InitPaging /\ [][NextPaging]_vars

(* ------------------------ fixes of a filed capture ---------------------- *)
\* the capture ids a client sends with a fix of the filed capture: its own,
\* or one the store does not know
FixCaptureIds == {Uuid(0), Uuid(9)}

\* fixes of the record the first capture stored, in any interleaving
NextFixes ==
  \/ \E capture_id \in FixCaptureIds : \E record_id \in {r.record_id : r \in records} :
       FixReceive(capture_id, record_id, Null)
  \/ \E ctx \in inflight : \E llmResponse \in FixerTexts : FixResume(ctx, llmResponse)

SpecFixes == InitPaging /\ [][NextFixes]_vars

(* --------------------- the extension's review loop --------------------- *)
\* call holds the popup: the screen shown, chrome.storage's currentCapture,
\* the error the screen shows, and the message whose answer is awaited
\* (at: the number of requests the server had started when it was sent)
NoMessage == [msg |-> "none"]
PopupStart == [fn |-> "popup", screen |-> "capture", currentCapture |-> Null, error |-> "", pending |-> NoMessage]

InitPopup ==
  /\ captures = {} /\ records = {} /\ inbox_log = <<>> /\ youtube_captures = {}
  /\ inflight = {} /\ last = NoResponse /\ nreq = 0 /\ page = NoPage
  /\ call = PopupStart /\ ret = NoCall

\* the server's answer to the pending message has arrived
Answered == call.pending # NoMessage /\ nreq = call.pending.at + 1 /\ inflight = {}

\* Popup.handleCaptured, handleNeedsReviewFixed: the screen after a capture
\* or a fix, from the stored status
ScreenFor(currentCapture) == IF currentCapture.status = "needs_review" THEN "needs_review" ELSE "confirmation"

\* v?.title for a canonical record v, or null
OptionalField(v, f) == IF v \in {Null, Undef} THEN Undef ELSE v[f]

\* CaptureScreen.handleCapture up to the await of sendToBackground
HandleCapture(raw_text) ==
  /\ call.screen = "capture"
  /\ call.pending = NoMessage
  /\ nreq < MaxRequests
  /\ call' = [call EXCEPT !.error = "", !.pending = [msg |-> "CAPTURE_THOUGHT", raw_text |-> raw_text, at |-> nreq]]
  /\ UNCHANGED <<captures, records, inbox_log, youtube_captures, inflight, last, nreq, page, ret>>

\* handleCapture after the answer: currentCapture is stored and onCaptured
\* picks the screen; an answer that is no success only sets the error
HandleCaptureAnswer ==
  /\ call.pending # NoMessage
  /\ call.pending.msg = "CAPTURE_THOUGHT"
  /\ Answered
  /\ IF last.http # 200
     THEN call' = [call EXCEPT !.error = "Failed to capture thought", !.pending = NoMessage]
     ELSE LET stored == [capture_id |-> last.capture_id, inbox_log_id |-> last.inbox_log_id,
                         record_id |-> Coalesce(last.stored_record, Null),
                         status |-> last.status, type |-> last.type, title |-> last.title,
                         confidence |-> last.confidence,
                         clarification_question |-> last.clarification_question,
                         classification_record |-> last.record]
          IN call' = [call EXCEPT !.currentCapture = stored, !.screen = ScreenFor(stored),
                                  !.pending = NoMessage]
  /\ UNCHANGED <<captures, records, inbox_log, youtube_captures, inflight, last, nreq, page, ret>>

\* NeedsReviewScreen.handleSubmit with a bucket selected, up to the await of
\* sendToBackground: without a stored classification_record it fails here
HandleSubmit ==
  /\ call.screen = "needs_review"
  /\ call.pending = NoMessage
  /\ LET current == call.currentCapture IN
     IF current = Null \/ current.classification_record \in {Null, Undef}
     THEN call' = [call EXCEPT !.error = "No current capture found"]
     ELSE /\ nreq < MaxRequests
          /\ call' = [call EXCEPT !.error = "", !.pending = [msg |-> "FIX_CLASSIFICATION", capture_id |-> current.capture_id, record_id |-> current.record_id, existing_record |-> current.classification_record, at |-> nreq]]
  /\ UNCHANGED <<captures, records, inbox_log, youtube_captures, inflight, last, nreq, page, ret>>

\* handleSubmit after the answer: currentCapture is rewritten from the
\* response, classification_record from updated_record, and onFixed picks
\* the screen
HandleSubmitAnswer ==
  /\ call.pending # NoMessage
  /\ call.pending.msg = "FIX_CLASSIFICATION"
  /\ Answered
  /\ IF last.http # 200
     THEN call' = [call EXCEPT !.error = "Failed to fix classification", !.pending = NoMessage]
     ELSE LET current == call.currentCapture
              stored == [capture_id |-> last.capture_id, inbox_log_id |-> last.inbox_log_id,
                         record_id |-> Coalesce(last.stored_record, Null),
                         status |-> IF last.status = "fixed" THEN "filed" ELSE "needs_review",
                         type |-> IF last.stored_record = Null THEN current.type ELSE Coalesce(last.type, current.type),
                         title |-> Coalesce(OptionalField(last.record, "title"), current.title),
                         confidence |-> Coalesce(OptionalField(last.record, "confidence"), current.confidence),
                         clarification_question |-> last.clarification_question,
                         classification_record |-> last.record]
          IN call' = [call EXCEPT !.currentCapture = stored, !.screen = ScreenFor(stored),
                                  !.pending = NoMessage]
  /\ UNCHANGED <<captures, records, inbox_log, youtube_captures, inflight, last, nreq, page, ret>>

\* the popup and the server: a request is started by the pending message
NextPopup ==
  \/ \E raw_text \in RawTexts : HandleCapture(raw_text)
  \/ /\ call.pending # NoMessage
     /\ call.pending.msg = "CAPTURE_THOUGHT"
     /\ call.pending.at = nreq
     /\ CaptureReceive(call.pending.raw_text)
  \/ \E ctx \in inflight : \E llmResponse \in ClassifierTexts : CaptureResume(ctx, llmResponse)
  \/ HandleCaptureAnswer
  \/ HandleSubmit
  \/ /\ call.pending # NoMessage
     /\ call.pending.msg = "FIX_CLASSIFICATION"
     /\ call.pending.at = nreq
     /\ FixReceive(call.pending.capture_id, call.pending.record_id, call.pending.existing_record)
  \/ \E ctx \in inflight : \E llmResponse \in FixerTexts : FixResume(ctx, llmResponse)
  \/ HandleSubmitAnswer

SpecPopup == InitPopup /\ [][NextPopup]_vars

(* ------------------------------- claims -------------------------------- *)
\* a stored or returned confidence that is a number of at least n hundredths
AtLeast(v, n) == v.t = "num" /\ v.n >= n

Entries == {inbox_log[i] : i \in 1..Len(inbox_log)}

\* C1: a capture answered 'filed' carries a confidence of at least 0.60, in the
\* response and in the Record row it names; every 'filed' audit entry and
\* every Record row has a confidence of at least 0.60.
CaptureConfidenceFloor ==
  /\ (last.route = "capture" /\ last.status = "filed") =>
       /\ AtLeast(last.confidence, 60)
       /\ AtLeast(last.declared, 60)
       /\ \E r \in records : r.record_id = last.stored_record /\ AtLeast(r.confidence, 60)
  /\ \A e \in Entries : e.action = "filed" => AtLeast(e.confidence, 60)
  /\ \A r \in records : AtLeast(r.confidence, 60)

\* a capture filed at exactly 0.60
CaptureFiledAtThreshold ==
  last.route = "capture" /\ last.status = "filed" /\ last.confidence = Num(60)

\* C2: a fix answered 'fixed' carries a confidence of at least 0.70, in the
\* response and in the Record row it wrote; every 'fixed' audit entry has a
\* confidence of at least 0.70, and so has the Record row it names.
FixConfidenceFloor ==
  /\ (last.route = "fix" /\ last.status = "fixed") =>
       /\ AtLeast(last.confidence, 70)
       /\ AtLeast(last.declared, 70)
       /\ \E r \in records : r.record_id = last.stored_record /\ AtLeast(r.confidence, 70)
  /\ \A e \in Entries : e.action = "fixed" =>
       /\ AtLeast(e.confidence, 70)
       /\ \E r \in records : r.record_id = e.record_id /\ AtLeast(r.confidence, 70)

\* a fix applied at exactly 0.70
FixAppliedAtThreshold ==
  last.route = "fix" /\ last.status = "fixed" /\ last.confidence = Num(70)

\* C3: when a response is 'filed' or 'fixed', the confidence the LLM declared
\* at the top level of its output is the confidence of the response, of the
\* record in the response, of the stored canonical JSON, of the confidence
\* column of the Record row, and of the audit entry of the request.
OuterInnerSync ==
  last.status \in {"filed", "fixed"} =>
    /\ last.confidence = last.declared
    /\ last.record.confidence = last.declared
    /\ \E r \in records :
         /\ r.record_id = last.stored_record
         /\ r.confidence = last.declared
         /\ JSONParse(r.canonical_json).confidence = last.declared
    /\ \E e \in Entries :
         /\ e.inbox_log_id = last.inbox_log_id
         /\ e.confidence = last.declared

\* a fix applied at 0.85 whose nested record declared 0.0
FixedWithOtherNestedConfidence ==
  last.route = "fix" /\ last.status = "fixed" /\ last.declared = Num(85)

\* C4: a step that answers a capture or a fix with 'needs_review' leaves the
\* records table as it was and names no stored record; the step that only
\* receives a request leaves the records table as it was too.
NoSilentFiling ==
  [][ /\ (last'.req # last.req /\ last'.status = "needs_review") =>
           (records' = records /\ last'.stored_record = Null)
      /\ (nreq' # nreq /\ last' = last) => records' = records ]_vars

\* a fix of a capture that has a Record row is answered 'needs_review'
FixOfFiledCaptureNeedsReview ==
  /\ last.route = "fix"
  /\ last.status = "needs_review"
  /\ \E r \in records : r.capture_id = last.capture_id

\* C5: every capture and every fix, whatever its outcome, adds exactly one
\* entry to the audit log: the step that answers a request finds the log one
\* entry longer than it was.
OneAuditEntryPerInvocation ==
  [][ last'.req # last.req => Len(inbox_log') = Len(inbox_log) + 1 ]_vars

\* C6: the audit log is append-only: no step removes an entry or changes one
\* that is there.
AppendOnlyAudit ==
  [][ /\ Len(inbox_log') >= Len(inbox_log)
      /\ \A i \in 1..Len(inbox_log) : inbox_log'[i] = inbox_log[i] ]_vars

\* a fix has added a second entry for a capture that had one
SecondEntryForCapture ==
  /\ Len(inbox_log) = 2
  /\ inbox_log[1].capture_id = inbox_log[2].capture_id
  /\ inbox_log[2].action \in {"fixed", "fix_attempted"}

\* C7: whatever text the LLM returns, the request is answered 200 with status
\* needs_review, filed or fixed and has written its audit entry; it is never
\* answered 500.
LLMNeverServerError ==
  last.route \in {"capture", "fix"} =>
    /\ last.http = 200
    /\ last.status \in {"needs_review", "filed", "fixed"}
    /\ "inbox_log" \in last.wrote

\* C8: however two captures interleave, each is given a sequence number of its
\* own, so the audit insert of a capture never fails on a log_id that is taken.
DistinctSequenceNumbers ==
  last.route = "capture" => last.error # "unique"

\* C9: when no request is in flight, every Capture row has an audit entry
\* that names it.
NoOrphanCaptures ==
  inflight = {} => \A c \in captures : \E e \in Entries : e.capture_id = c.capture_id

\* C10: a request that has written a row has written its audit entry: no
\* request ends with a Capture row or a Record row written and no audit entry;
\* every Record row is named by an audit entry.
NoPartialWrites ==
  /\ last.wrote # {} => "inbox_log" \in last.wrote
  /\ \A r \in records : \E e \in Entries : e.record_id = r.record_id

\* C11: when the LLM call of a capture or a fix throws, the request is
\* answered as for a parse failure: HTTP 200, status needs_review, the
\* parse-failure confidence in its one new audit entry.
LLMFailureIsParseFailure ==
  [][ (\E ctx \in inflight : CaptureCallFails(ctx) \/ FixCallFails(ctx)) =>
        /\ last'.http = 200
        /\ last'.status = "needs_review"
        /\ Len(inbox_log') = Len(inbox_log) + 1
        /\ inbox_log'[Len(inbox_log')].confidence = Num(ParseFailedConfidence) ]_vars

\* the Capture row a step has inserted
NewCapture == CHOOSE c \in captures' \ captures : TRUE

\* C12: a capture whose raw text the guardrail detects as several thoughts is
\* answered in the step that receives it, with no LLM call (no request is put
\* in flight): needs_review, type admin, confidence 0.3, the split-your-input
\* message, no stored record; the step has written the Capture row and one
\* audit entry and no Record row.
MultiThoughtShortCircuit ==
  [][ (captures' # captures /\ detectMultipleThoughts(NewCapture.raw_text)) =>
        /\ inflight' = inflight
        /\ last'.req = nreq'
        /\ last'.http = 200
        /\ last'.status = "needs_review"
        /\ last'.type = Str("admin")
        /\ last'.confidence = Num(30)
        /\ last'.clarification_question = Str("Please split into one thought per capture.")
        /\ last'.stored_record = Null
        /\ last'.capture_id = NewCapture.capture_id
        /\ Cardinality(captures') = Cardinality(captures) + 1
        /\ Len(inbox_log') = Len(inbox_log) + 1
        /\ inbox_log'[Len(inbox_log')].capture_id = NewCapture.capture_id
        /\ inbox_log'[Len(inbox_log')].confidence = Num(30)
        /\ records' = records ]_vars

\* a numbered list of two items has been answered by the guardrail
NumberedListShortCircuited ==
  /\ last.route = "capture"
  /\ last.status = "needs_review"
  /\ last.confidence = Num(30)
  /\ \E c \in captures : c.capture_id = last.capture_id /\ c.raw_text = TextList

\* C13: for the capture "Follow up with Ben about insulation. Also call the
\* electrician; and check supplier pricing." the detector returns true, no
\* LLM call is made (the capture is never in flight) and the capture is
\* answered needs_review with confidence 0.3.
ExampleFiresGuardrail ==
  \A c \in captures : c.raw_text = TextFollowUp =>
    /\ detectMultipleThoughts(c.raw_text)
    /\ \A ctx \in inflight : ctx.capture_id # c.capture_id
    /\ \E e \in Entries :
         /\ e.capture_id = c.capture_id
         /\ e.status = "needs_review"
         /\ e.confidence = Num(30)

\* the audit entry with the greatest log_id among those of a capture
LatestEntry(capture_id) ==
  CHOOSE e \in Entries :
    /\ e.capture_id = capture_id
    /\ \A o \in Entries : o.capture_id = capture_id => o.log_id <= e.log_id

PageItems == {page.items[i] : i \in 1..Len(page.items)}

\* C14: in a GET /recent response no two items carry the same capture id, and
\* the item of a capture carries the inbox_log_id, status, confidence and
\* record_id of the audit entry with the greatest log_id among the entries of
\* that capture.
LatestStatePerCapture ==
  /\ \A i, j \in 1..Len(page.items) :
       page.items[i].capture_id = page.items[j].capture_id => i = j
  /\ \A it \in PageItems :
       CaptureExists(captures, it.capture_id) =>
         LET e == LatestEntry(it.capture_id) IN
           /\ it.inbox_log_id = e.inbox_log_id
           /\ it.status = Str(e.status)
           /\ it.confidence = e.confidence
           /\ it.record_id = e.record_id

\* a page shows a capture that has a capture entry and a later fix entry
PageShowsFixedCapture ==
  \E it \in PageItems : \E e1, e2 \in Entries :
    /\ e1.capture_id = it.capture_id /\ e2.capture_id = it.capture_id
    /\ e1.log_id < e2.log_id
    /\ e2.action \in {"fixed", "fix_attempted"}
    /\ it.inbox_log_id = e2.inbox_log_id

\* C15: the rows of a GET /recent response have strictly descending sequence
\* numbers (no two rows share one), and with a cursor c every row has a
\* sequence number strictly less than c.
StrictlyDescendingPage ==
  /\ \A i, j \in 1..Len(page.log_ids) :
       i < j => /\ page.log_ids[i].t = "num" /\ page.log_ids[j].t = "num"
                /\ page.log_ids[i].n > page.log_ids[j].n
  /\ page.cursor.t = "num" =>
       \A i \in 1..Len(page.log_ids) :
         page.log_ids[i].t = "num" /\ page.log_ids[i].n < page.cursor.n

Traversal(limitQuery) == loadRecent(limitQuery, Undef, MaxRequests)

\* C17: with no writes in between, following next_cursor from the first page
\* with a fixed limit ends with a null next_cursor, and the gathered items
\* hold every capture that has an audit entry exactly once.
CompleteTraversal ==
  \A limitQuery \in FeedLimitQueries : \A e \in Entries :
    LET t == Traversal(limitQuery) IN
      /\ t.ended
      /\ Cardinality({i \in 1..Len(t.items) : t.items[i].capture_id = e.capture_id}) = 1

\* C18: each capture id has at most one Record row.
OneRecordPerCapture ==
  \A r1, r2 \in records : r1.capture_id = r2.capture_id => r1.record_id = r2.record_id

\* the existing_record a fix request can carry
ExistingRecords == ClientRecords \cup {Null}

\* C19 (as stated): whenever a fix request with a non-null record_id is
\* received, the step it takes (the LLM input put in flight, or the response)
\* is the step the same request takes with any other existing_record.
ExistingRecordIgnoredNonNull ==
  [][\A capture_id \in CaptureIds : \A record_id \in RecordIds \ {Null} :
       \A e1, e2 \in ExistingRecords :
         FixReceive(capture_id, record_id, e1) => FixReceive(capture_id, record_id, e2)]_vars

\* C19 (amended): whenever a fix request with a truthy record_id (not null and
\* not the empty string) is received, the step it takes is the step the same
\* request takes with any other existing_record; the LLM input it puts in
\* flight is built from the stored Record row.
ExistingRecordIgnored ==
  [][\A capture_id \in CaptureIds : \A record_id \in RecordIds :
       \A e1, e2 \in ExistingRecords :
         (Truthy(record_id) /\ FixReceive(capture_id, record_id, e1)) =>
           /\ FixReceive(capture_id, record_id, e2)
           /\ \A ctx \in inflight' \ inflight :
                \E r \in records :
                  /\ r.record_id = record_id
                  /\ ctx.llm_input = buildFixInput("correction", JSONParse(r.canonical_json))]_vars

\* a fix with a stored record_id is in flight, and its LLM input is built from
\* the stored row, which is not what a client's copy would have given
FixInFlightWithStoredRecord ==
  \E ctx \in inflight : \E r \in records :
    /\ ctx.route = "fix"
    /\ r.record_id = ctx.record_id
    /\ ctx.llm_input = buildFixInput("correction", JSONParse(r.canonical_json))
    /\ \A e \in ClientRecords : ctx.llm_input # buildFixInput("correction", e)

\* what a fix answered 'fixed' must have done to the Record table when it
\* updates: the same rows, the row record_id with the canonical JSON, type,
\* title and confidence of the validated record, stored_record naming it
UpdatedInPlace(ctx) ==
  /\ Cardinality(records') = Cardinality(records)
  /\ {r.record_id : r \in records'} = {r.record_id : r \in records}
  /\ \A r \in records : r.record_id # ctx.record_id => r \in records'
  /\ last'.stored_record = ctx.record_id
  /\ \E r \in records' :
       /\ r.record_id = ctx.record_id
       /\ r.canonical_json = JSONStringify(last'.record)
       /\ r.type = last'.record.type
       /\ r.title = last'.record.title
       /\ r.confidence = last'.record.confidence

\* and when it inserts: one new row, of the request's capture, under a new
\* non-null id that stored_record names
InsertedOne(ctx) ==
  \E r \in records' \ records :
    /\ records' = records \cup {r}
    /\ r.capture_id = ctx.capture_id
    /\ r.record_id = last'.stored_record
    /\ r.record_id # Null
    /\ \A o \in records : o.record_id # r.record_id

\* the step answers the fix request ctx with 'fixed'
AnsweredFixed(ctx) ==
  /\ ctx.route = "fix" /\ ctx \notin inflight'
  /\ last'.req = ctx.req /\ last'.http = 200 /\ last'.status = "fixed"

\* C20 (as stated): a fix answered 'fixed' with a non-null record_id updates
\* that Record row in place; with record_id null it inserts exactly one new
\* row for the request's capture and returns its new id.
FixedUpdatesOrInsertsNonNull ==
  [][\A ctx \in inflight : AnsweredFixed(ctx) =>
       IF ctx.record_id # Null THEN UpdatedInPlace(ctx) ELSE InsertedOne(ctx)]_vars

\* C20 (amended): a fix answered 'fixed' with a truthy record_id (not null and
\* not the empty string) updates that Record row in place; with record_id null
\* or the empty string it inserts exactly one new row for the request's
\* capture and returns its new id.
FixedUpdatesOrInserts ==
  [][\A ctx \in inflight : AnsweredFixed(ctx) =>
       IF Truthy(ctx.record_id) THEN UpdatedInPlace(ctx) ELSE InsertedOne(ctx)]_vars

\* a filed capture's record was fixed in place: the fix is answered 'fixed'
\* with the record_id the capture was filed under, and there is one row
FixedInPlace ==
  /\ last.route = "fix" /\ last.http = 200 /\ last.status = "fixed"
  /\ Cardinality(records) = 1
  /\ \E r \in records : \E e \in Entries :
       /\ r.record_id = last.stored_record
       /\ e.action = "filed" /\ e.record_id = r.record_id
       /\ r.canonical_json = JSONStringify(last.record)

\* C21: a capture answered needs_review carries a confidence below 0.60, a
\* capture answered filed one of at least 0.60, and a fix answered other than
\* fixed one below 0.70.
StatusLifecycle ==
  /\ (last.route = "capture" /\ last.http = 200 /\ last.status = "needs_review") =>
       JsLess(last.confidence, CaptureThreshold)
  /\ (last.route = "capture" /\ last.http = 200 /\ last.status = "filed") =>
       AtLeast(last.confidence, CaptureThreshold)
  /\ (last.route = "fix" /\ last.http = 200 /\ last.status # "fixed") =>
       JsLess(last.confidence, FixThreshold)

\* C22: parseJSONSafe(JSON.stringify(x)) is success with data equal to x for
\* every JSON-serializable x; on an empty, white-space-only or non-JSON
\* response it is a failure with an error string, and it does not throw.
JsonGuardRoundTrip ==
  ret # NoCall =>
    /\ ~ret.result.threw
    /\ call.fn = "stringify" =>
         /\ ret.result.success /\ ret.result.data = call.x
    /\ (call.fn = "text" /\ call.x.s \in NotJsonTexts) =>
         /\ ~ret.result.success /\ ret.result.error # ""

\* the round trip of an object whose string member holds a closing brace
RoundTripOfNestedObject ==
  /\ call.fn = "stringify"
  /\ call.x = Obj(<<<<<<"a">>, Obj(<<<<<<"b">>, Str(<<"}">>)>>>>)>>>>)
  /\ ret # NoCall
  /\ ret.llmResponse = <<"{", Quote, "a", Quote, ":", "{", Quote, "b", Quote, ":", Quote, "}", Quote, "}", "}">>
  /\ ret.result.success /\ ret.result.data = call.x

\* C23: for every type, every confidence in [0, 1] and every question that is
\* a string or null, buildEmptyCanonicalRecord gives a record that passes
\* CanonicalRecord validation, with title 'Unfiled capture', no links, null in
\* every nullable bucket field, project_status 'active' and task_status 'open'.
EmptyRecordValid ==
  ret # NoCall =>
    /\ ret.parses
    /\ ret.validation.success /\ ret.validation.record = ret.record
    /\ ret.record.type = call.type /\ ret.record.confidence = call.confidence
    /\ ret.record.clarification_question = call.clarification_question
    /\ ret.record.title = Str("Unfiled capture")
    /\ ret.record.links = Arr(<<>>)
    /\ ret.record.person.o = [person_name |-> Null, context |-> Null, follow_up |-> Null]
    /\ ret.record.project.o = [project_name |-> Null, project_status |-> Str("active"),
                               next_action |-> Null, notes |-> Null]
    /\ ret.record.idea.o = [idea_one_liner |-> Null, notes |-> Null]
    /\ ret.record.admin.o = [task |-> Null, due_date |-> Null, task_status |-> Str("open"),
                             notes |-> Null]

\* the empty record of an idea at confidence 1 with an empty question was
\* built and validated
EmptyIdeaRecordBuilt ==
  /\ ret # NoCall /\ ret.parses
  /\ call.type = Str("idea") /\ call.confidence = Num(100)
  /\ call.clarification_question = Str("")
  /\ ret.record.type = Str("idea")

\* C24: a step that stores a Capture row is the receipt of a capture request
\* and stores the submitted raw_text unchanged, whatever branch the request
\* takes; no step removes or changes a Capture row that is stored.
RawTextImmutable ==
  [][/\ captures \subseteq captures'
     /\ captures' # captures =>
          \E raw_text \in RawTexts : \E c \in captures' \ captures :
            /\ CaptureReceive(raw_text)
            /\ captures' = captures \cup {c}
            /\ c.raw_text = raw_text
            /\ \A o \in captures : o.capture_id # c.capture_id]_vars

\* a capture was filed and then fixed, and its row still holds the text that
\* was submitted
CaptureRowKeptThroughFix ==
  /\ last.route = "fix" /\ last.http = 200 /\ last.status = "fixed"
  /\ \E e \in Entries : e.action = "filed" /\ e.capture_id = last.capture_id
  /\ \E c \in captures : c.capture_id = last.capture_id /\ c.raw_text = TextSingle

\* C25: a capture or fix request whose body lacks a required object is
\* answered 400 and writes no Capture row, no Record row and no audit entry.
MalformedAnswered400 ==
  [][\A missing \in CaptureMissing \cup FixMissing :
       (CaptureMalformed(missing) \/ FixMalformed(missing)) =>
         /\ last'.http = 400
         /\ UNCHANGED <<captures, records, inbox_log>>]_vars

\* the step rejects the fix request with 400 before any LLM call and leaves
\* the tables alone
RejectedNotFound ==
  /\ last'.route = "fix" /\ last'.http = 400
  /\ last'.error = "Could not find existing record to fix"
  /\ inflight' = inflight
  /\ UNCHANGED <<captures, records, inbox_log>>

\* C26 (as stated): a fix request with a non-null record_id that matches no
\* Record row is rejected with 400 before any LLM call, with the tables
\* unchanged, whatever existing_record it carries.
UnknownRecordRejectedNonNull ==
  [][\A capture_id \in CaptureIds : \A record_id \in RecordIds : \A e \in ExistingRecords :
       (/\ record_id # Null /\ ~RecordExists(records, record_id)
        /\ FixReceive(capture_id, record_id, e)) => RejectedNotFound]_vars

\* C26 (amended): a fix request with a truthy record_id (not null and not the
\* empty string) that matches no Record row is rejected with 400 before any
\* LLM call, with the tables unchanged, whatever existing_record it carries.
UnknownRecordRejected ==
  [][\A capture_id \in CaptureIds : \A record_id \in RecordIds : \A e \in ExistingRecords :
       (/\ Truthy(record_id) /\ ~RecordExists(records, record_id)
        /\ FixReceive(capture_id, record_id, e)) => RejectedNotFound]_vars

\* a fix for a stored capture was rejected with 400 while a Record row of
\* that capture exists, and no request is in flight
FixRejectedNotFound ==
  /\ last.route = "fix" /\ last.http = 400
  /\ last.error = "Could not find existing record to fix"
  /\ inflight = {}
  /\ \E r \in records : r.capture_id = last.capture_id

\* the page size the limit parameter asks for: 20 when it is missing or not a
\* number, else the number clamped to 1..100
AskedPageSize(limitQuery) ==
  IF ParseInt(limitQuery) = NaN THEN RecentDefaultLimit
  ELSE Min(Max(ParseInt(limitQuery).n, 1), RecentMaxLimit)

\* C27 (as stated): GET /recent never rejects a request for its limit, and the
\* number of items it returns never exceeds min(max(limit, 1), 100), with 20
\* for a limit that is missing or not a number.
LimitClampedAsStated ==
  /\ page.http # 400
  /\ Len(page.items) <= AskedPageSize(page.limit_query)

\* C27 (amended): GET /recent never rejects a request for its limit; its page
\* size is 20 for a limit that is missing, not a number or 0, and otherwise
\* min(max(limit, 1), 100); the number of items never exceeds the page size.
LimitClamped ==
  page.http # 0 =>
    /\ page.http # 400
    /\ page.limit = IF ParseInt(page.limit_query) = Num(0) THEN RecentDefaultLimit
                    ELSE AskedPageSize(page.limit_query)
    /\ Len(page.items) <= page.limit

\* a request with limit=500 was answered with a page of size 100 holding the
\* two items there are
LimitAboveMaximumClamped ==
  /\ page.http = 200 /\ page.limit_query = Str(<<"5", "0", "0">>)
  /\ page.limit = RecentMaxLimit /\ Len(page.items) = 2

\* C28: every Record row has a non-empty title, and so has every 'filed' or
\* 'fixed' audit entry: a record whose title is "" is never stored
NonEmptyTitles ==
  /\ \A r \in records : r.title.t = "str" /\ r.title.s # ""
  /\ \A e \in Entries : e.action \in {"filed", "fixed"} =>
       e.filed_title.t = "str" /\ e.filed_title.s # ""

\* C29: the classification.record of every needs_review response of
\* POST /capture passes CanonicalRecord validation, whatever the LLM returned
PlaceholderValid ==
  (last.route = "capture" /\ last.http = 200 /\ last.status = "needs_review") =>
    CanonicalRecordSchema(last.record)

\* the conditions C30 lists for a capture that passed the guardrail: the LLM
\* response parses to a value the handler accepts, the declared confidence is
\* at least 0.60, the declared status is not needs_review, a record is present
\* and it passes safeValidate
FilingConditions(llmResponse) ==
  LET parseResult == parseJSONSafe(llmResponse)
      out == OutputFields(parseResult.data)
  IN /\ parseResult.success /\ Truthy(parseResult.data)
     /\ AtLeast(out.confidence, CaptureThreshold)
     /\ out.status # Str("needs_review")
     /\ Truthy(out.record)
     /\ safeValidateCanonicalRecord(out.record).success

\* the confidence C30 states for a needs_review answer after the LLM call
StatedReviewConfidence(llmResponse) ==
  LET parseResult == parseJSONSafe(llmResponse) IN
  IF parseResult.success /\ Truthy(parseResult.data)
  THEN OutputFields(parseResult.data).confidence
  ELSE Num(ParseFailedConfidence)

\* C30: a capture is answered filed exactly when the guardrail did not flag
\* it and the LLM output parses, declares a confidence of at least 0.60 and a
\* status other than needs_review, and carries a record that validates; every
\* other answer that is not an error is needs_review, with confidence 0.3
\* from the guardrail, 0.2 after a parse failure and the declared confidence
\* otherwise; one Capture row per request, a Record row only when filed.
CaptureDecision ==
  [][/\ \A raw_text \in RawTexts : CaptureReceive(raw_text) =>
          /\ Cardinality(captures') = Cardinality(captures) + 1
          /\ records' = records
          /\ IF detectMultipleThoughts(raw_text)
             THEN /\ last'.http = 200 /\ last'.status = "needs_review"
                  /\ last'.confidence = Num(MultiThoughtConfidence)
             ELSE last' = last
     /\ \A ctx \in inflight : \A llmResponse \in ClassifierTexts :
          CaptureResume(ctx, llmResponse) =>
            /\ captures' = captures
            /\ IF FilingConditions(llmResponse)
               THEN /\ last'.http = 200 /\ last'.status = "filed"
                    /\ \E r \in records' : /\ records' = records \cup {r}
                                           /\ r \notin records
                                           /\ r.capture_id = ctx.capture_id
               ELSE /\ records' = records
                    /\ last'.http = 200 =>
                         /\ last'.status = "needs_review"
                         /\ last'.confidence = StatedReviewConfidence(llmResponse)]_vars

\* the conditions C31 lists for a fix: the LLM response parses to a value the
\* handler accepts, the declared status is not needs_review, the declared
\* confidence is at least 0.70, a record is present and it passes safeValidate
FixingConditions(llmResponse) ==
  LET parseResult == parseJSONSafe(llmResponse)
      out == OutputFields(parseResult.data)
  IN /\ parseResult.success /\ Truthy(parseResult.data)
     /\ out.status # Str("needs_review")
     /\ AtLeast(out.confidence, FixThreshold)
     /\ Truthy(out.record)
     /\ safeValidateCanonicalRecord(out.record).success

\* the audit entry a step has appended, when it appended exactly one
AppendedEntry == inbox_log'[Len(inbox_log')]

\* C31: a fix of a stored capture whose current record was resolved is answered fixed, with an
\* audit entry of action 'fixed' and status 'filed', exactly when the LLM
\* output parses, declares a status other than needs_review and a confidence
\* of at least 0.70, and carries a record that validates; otherwise it is
\* answered needs_review with an entry of action 'fix_attempted' and status
\* 'needs_review', whose confidence is 0.2 after a parse failure and the
\* declared confidence otherwise.
FixDecision ==
  [][\A ctx \in inflight : \A llmResponse \in FixerTexts :
       (FixResume(ctx, llmResponse) /\ CaptureExists(captures, ctx.capture_id)) =>
         /\ last'.http = 200
         /\ Len(inbox_log') = Len(inbox_log) + 1
         /\ IF FixingConditions(llmResponse)
            THEN /\ last'.status = "fixed"
                 /\ AppendedEntry.action = "fixed"
                 /\ AppendedEntry.status = "filed"
            ELSE /\ last'.status = "needs_review"
                 /\ AppendedEntry.action = "fix_attempted"
                 /\ AppendedEntry.status = "needs_review"
                 /\ AppendedEntry.confidence = StatedReviewConfidence(llmResponse)]_vars

\* the text with its leading and trailing whitespace removed
Trimmed(text) ==
  LET kept == {i \in 1..Len(text) : text[i] \notin Whitespace} IN
  IF kept = {} THEN <<>>
  ELSE SubSeq(text, CHOOSE i \in kept : \A j \in kept : i <= j,
                    CHOOSE i \in kept : \A j \in kept : i >= j)

\* (a) a line of the text begins with digits and '.' or ')', or with '*' or
\* '-', and whitespace follows the marker
LineBeginsWithMarker(text) ==
  \E i \in 1..Len(text) :
    /\ i = 1 \/ text[i - 1] = "\n"
    /\ \E j \in i..(Len(text) - 1) :
         /\ text[j + 1] \in Whitespace
         /\ \/ j = i /\ text[i] \in {"*", "-"}
            \/ /\ j > i /\ text[j] \in {".", ")"}
               /\ \A k \in i..(j - 1) : text[k] \in Digits

\* the sentence boundaries: one of . ! ? followed by whitespace
Boundaries(text) ==
  Cardinality({i \in 2..Len(text) : text[i] \in Whitespace /\ text[i - 1] \in {".", "!", "?"}})

\* a connector word stands in the text, in either case, as a word of its own
ContainsConnector(text) ==
  \E w \in ConnectorWords : \E i \in 0..(Len(text) - Len(w)) :
    /\ \A k \in 1..Len(w) : ToLowerChar(text[i + k]) = w[k]
    /\ i = 0 \/ text[i] \notin WordChars
    /\ i + Len(w) = Len(text) \/ text[i + Len(w) + 1] \notin WordChars

ContainsSemicolon(text) == \E i \in 1..Len(text) : text[i] = ";"

ValidationTotal ==
  ret.fn \in {"safeValidateCanonicalRecord", "normalizeCanonicalRecord"} => ~ret.threw

\* C34: the canonical JSON of every Record row passes CanonicalRecord
\* validation, and the row's type, title and confidence columns equal the
\* fields of that JSON
RecordRowsValid ==
  \A r \in records :
    LET json == JSONParse(r.canonical_json) IN
    /\ CanonicalRecordSchema(json)
    /\ r.type = json.type
    /\ r.title = json.title
    /\ r.confidence = json.confidence

\* an audit entry of a stored record: status filed, the record's id, type and
\* title, and no question
FiledShape(e) ==
  /\ e.status = "filed"
  /\ e.record_id # Null /\ e.filed_type # Null /\ e.filed_title # Null
  /\ e.clarification_question = Null

\* an audit entry without a stored record
ReviewShape(e) ==
  /\ e.status = "needs_review"
  /\ e.record_id = Null /\ e.filed_type = Null /\ e.filed_title = Null

\* C35: every audit entry with action 'filed' or 'fixed' has status 'filed',
\* a record_id, filed_type and filed_title and no clarification question;
\* every entry with action 'needs_review' or 'fix_attempted' has status
\* 'needs_review' and none of the three; no entry has both shapes or another
\* action; an entry written by capture has action 'filed' or 'needs_review',
\* one written by fix has 'fixed' or 'fix_attempted'.
AuditEntryShape ==
  /\ \A e \in Entries :
       /\ e.action \in {"filed", "fixed", "needs_review", "fix_attempted"}
       /\ e.action \in {"filed", "fixed"} <=> e.status = "filed"
       /\ e.status = "filed" <=> FiledShape(e)
       /\ e.action \in {"needs_review", "fix_attempted"} <=> e.status = "needs_review"
       /\ e.status = "needs_review" <=> ReviewShape(e)
  /\ ("inbox_log" \in last.wrote /\ last.route = "capture") =>
       inbox_log[Len(inbox_log)].action \in {"filed", "needs_review"}
  /\ ("inbox_log" \in last.wrote /\ last.route = "fix") =>
       inbox_log[Len(inbox_log)].action \in {"fixed", "fix_attempted"}

\* a capture that needed review has been fixed: the trail holds an entry of
\* each shape, the second written by fix
ReviewThenFixedEntries ==
  /\ Len(inbox_log) = 2
  /\ inbox_log[1].action = "needs_review" /\ ReviewShape(inbox_log[1])
  /\ inbox_log[2].action = "fixed" /\ FiledShape(inbox_log[2])
  /\ last.route = "fix" /\ "inbox_log" \in last.wrote

\* C36: the committed audit entries, in the order of their commits, carry the
\* sequence numbers 1, 2, ..., n: pairwise distinct, each greater than those
\* committed before it, and without a gap, however requests interleave
CommittedSequenceGapless ==
  \A i \in 1..Len(inbox_log) : inbox_log[i].log_id = i

\* the second request has committed its entry with number 1 while the first,
\* a capture that read the same number before its LLM call, is still in flight
LaterRequestCommittedFirst ==
  /\ Len(inbox_log) = 1
  /\ inbox_log[1].inbox_log_id = Uuid(2)
  /\ \E ctx \in inflight : ctx.req = 1 /\ ctx.route = "capture" /\ ctx.log_id = 1

\* C37: when a client has followed next_cursor to the end, every capture that
\* had an audit entry when the first page was fetched is in one of the pages
\* it fetched, also when fixes appended audit entries between the fetches
PagingKeepsCaptures ==
  (call # NoCall /\ call.next_cursor = Null) => call.had \subseteq call.seen

\* the audit entry with the highest sequence number among those that
\* reference the record
LatestEntryOfRecord(record_id) ==
  CHOOSE e \in Entries :
    /\ e.record_id = record_id
    /\ \A o \in Entries : o.record_id = record_id => o.log_id <= e.log_id

\* every request so far was a fix that ended as fixed: each has left one
\* 'fixed' entry after the entry of the capture
AllFixesEndedFixed ==
  /\ inflight = {}
  /\ Len(inbox_log) = nreq + 1
  /\ \A i \in 2..Len(inbox_log) : inbox_log[i].action = "fixed"

\* C38: when the fixes of a record have all ended as fixed, in whatever order
\* their steps interleaved, the Record row holds what the fix with the highest
\* sequence number wrote: its type, title and confidence equal filed_type,
\* filed_title and confidence of the latest audit entry that references it
LastWriterMatchesAudit ==
  AllFixesEndedFixed =>
    \A r \in records :
      LET e == LatestEntryOfRecord(r.record_id) IN
      /\ e.record_id = r.record_id
      /\ r.type = e.filed_type
      /\ r.title = e.filed_title
      /\ r.confidence = e.confidence

\* two fixes of the record were in flight together and both ended as fixed;
\* the one received first committed last, and they wrote different records
OvertakenFixWroteLast ==
  /\ AllFixesEndedFixed
  /\ Len(inbox_log) = 3
  /\ inbox_log[2].inbox_log_id = Uuid(2)
  /\ inbox_log[3].inbox_log_id = Uuid(1)
  /\ inbox_log[2].record_id = inbox_log[3].record_id
  /\ inbox_log[2].filed_title # inbox_log[3].filed_title

\* C39: every audit entry with a record_id references a Record row that
\* exists and belongs to the entry's capture
AuditReferencesOwnRecord ==
  \A e \in Entries :
    e.record_id # Null =>
      \E r \in records : r.record_id = e.record_id /\ r.capture_id = e.capture_id

\* C40: after a fix sent from the needs-review screen is answered
\* needs_review, the popup stays on the needs-review screen and the stored
\* currentCapture keeps a non-null classification_record, so that the next
\* submit sends a fix request and does not fail with "No current capture
\* found"
ReviewItemStaysCorrectable ==
  [][(HandleSubmitAnswer /\ last.http = 200 /\ last.status = "needs_review")
       => /\ call'.screen = "needs_review"
          /\ call'.currentCapture.classification_record # Null]_vars

====
